---- MODULE Spec2Model ----
(***************************************************************************)
(* A model of the grammY chat-members plugin.                              *)
(*                                                                         *)
(*   Spec        the hierarchical chatMembers middleware (three key scopes *)
(*               chats / users / chat_members) over a storage adapter      *)
(*   SpecFault   the same middleware over a store whose writes can fail    *)
(*   SpecConcurrent  the same middleware when a read-through of            *)
(*               getChatMember interleaves with other updates              *)
(*   SpecFlat    the flat-key chatMembers middleware of mod.ts (one record *)
(*               per getKey(chatId, userId))                               *)
(*   SpecChats   the chats middleware of mod.ts (one record per chat)       *)
(*   SpecFilter  the status classification functions of filters.ts         *)
(*   SpecTransition  the transition filters of filters.ts                  *)
(*   SpecStorage the MemorySessionStorage of storage.ts over its Trie,     *)
(*               with a clock for the time to live                         *)
(*   SpecHydrate the hydrateChatMember transformer of hydrate.ts           *)
(***************************************************************************)
EXTENDS Integers, Sequences, FiniteSets

VARIABLES
    store,      \* the storage adapter's contents: cascading key -> value
    options,    \* the options the middleware was constructed with
    last,       \* the operation processed last (an update or an accessor call)
    pre,        \* the adapter's contents right before that operation
    out,        \* what that operation did: store operations, remote calls, error, result
    n,          \* the number of operations processed so far
    fetched,    \* the keys a read-through wrote back and no delete removed since
    asyncHas,   \* whether the adapter's has() answers with a promise
    fMember,    \* filters: the chat member under classification
    fQuery,     \* filters: the query it is classified by
    fResult,    \* filters: the result of chatMemberIs, <<>> before the call
    uUpdate,    \* filters: the update a transition filter is applied to
    uFilter,    \* filters: the transition filter, its name and its two queries
    uResult,    \* filters: the result of the transition filter, <<>> before the call
    joined,     \* flat-key middleware: the (chat, user) pairs whose last chat_member
                \* update recorded the user as being in the chat
    now,        \* in-memory store: the clock, Date.now()
    written,    \* in-memory store: key -> the value last written and the time of
                \* the write, for the keys written and not deleted since
    hCall,      \* hydrate: the API call passing through the transformer
    hResult,    \* hydrate: the response the transformer returns, <<>> before the call
    pending     \* concurrent dispatch: the read-through that missed the store and
                \* waits for the remote API, <<>> if there is none

vars ==
    <<store, options, last, pre, out, n, fetched, asyncHas,
      fMember, fQuery, fResult, uUpdate, uFilter, uResult,
      joined, now, written, hCall, hResult, pending>>
mwVars == <<store, options, last, pre, out, n, fetched, asyncHas, joined>>
filterVars == <<fMember, fQuery, fResult, uUpdate, uFilter, uResult>>
storageVars == <<now, written>>
hydrateVars == <<hCall, hResult>>
concVars == <<pending>>

(***************************************************************************)
(* Bounds of the model.                                                    *)
(***************************************************************************)
\* operations (updates, accessor calls) processed in one behaviour
MaxEvents == 2

ChatIds == {-1, 2}
UserIds == {1, 2}

(***************************************************************************)
(* JavaScript values.  An optional value is <<>> (undefined) or <<v>>.     *)
(***************************************************************************)
Undefined == <<>>
Some(v) == <<v>>
Defined(o) == o # <<>>
Val(o) == o[1]

Digits == <<"0", "1", "2", "3", "4", "5", "6", "7", "8", "9">>

RECURSIVE natToString(_)
natToString(k) ==
    IF k < 10 THEN Digits[k + 1]
    ELSE natToString(k \div 10) \o Digits[(k % 10) + 1]

\* Number.prototype.toString for an integer
toString(k) == IF k < 0 THEN "-" \o natToString(-k) ELSE natToString(k)

(***************************************************************************)
(* Telegram objects.  Private chats have positive ids, groups negative.    *)
(***************************************************************************)
RawStatuses == {"creator", "administrator", "member", "restricted", "left", "kicked"}
MemberKinds ==
    {"creator", "administrator", "member", "restricted_in", "restricted_out", "left", "kicked"}

User(u, v) == [id |-> u, first_name |-> v]
Chat(c, v) == [id |-> c, type |-> IF c > 0 THEN "private" ELSE "supergroup", title |-> v]

\* A ChatMember of the given kind; only a restricted member carries is_member.
ChatMember(user, kind) ==
    CASE kind = "restricted_in" ->
            [user |-> user, status |-> "restricted", is_member |-> TRUE]
      [] kind = "restricted_out" ->
            [user |-> user, status |-> "restricted", is_member |-> FALSE]
      [] OTHER -> [user |-> user, status |-> kind]

\* the kinds of member the remote API reports in the model
ApiKinds == {"administrator", "restricted_out", "kicked"}

BotUser == [id |-> 3, first_name |-> 1]

(***************************************************************************)
(* The storage adapter: a map from cascading keys to values.               *)
(***************************************************************************)
EmptyStore == [k \in {} |-> Undefined]

adapterRead(s, key) == IF key \in DOMAIN s THEN Some(s[key]) ELSE Undefined

adapterWrite(s, key, value) ==
    [k \in DOMAIN s \cup {key} |-> IF k = key THEN value ELSE s[k]]

adapterDelete(s, key) == [k \in DOMAIN s \ {key} |-> s[k]]

adapterHas(s, key) == key \in DOMAIN s

(***************************************************************************)
(* One run of the middleware chain (or of an accessor): the adapter's      *)
(* contents, the log of the store operations, remote calls and downstream  *)
(* invocations made so far, and the error thrown, if any.  A thrown error  *)
(* ends the run: every later step is skipped.  failAt = k makes the k-th   *)
(* write of the run fail (0: the store does not fail); whether the failed  *)
(* write reached the store is failApplied.                                 *)
(***************************************************************************)
StartRun(s) ==
    [store |-> s, log |-> <<>>, remote |-> 0, answers |-> <<>>, err |-> "none",
     result |-> Undefined, failAt |-> 0, failApplied |-> FALSE]

\* the run with a store whose k-th write fails
WithFault(r, k, applied) == [r EXCEPT !.failAt = k, !.failApplied = applied]

\* the writes attempted so far
WritesIn(log) == Cardinality({i \in 1..Len(log) : log[i][1] = "write"})

Running(r) == r.err = "none"

Throw(r, e) == IF Running(r) THEN [r EXCEPT !.err = e] ELSE r

runRead(r, key) == [r EXCEPT !.log = Append(@, <<"read", key>>)]

runHas(r, key) == [r EXCEPT !.log = Append(@, <<"has", key>>)]

runWrite(r, key, value) ==
    IF ~Running(r) THEN r
    ELSE IF r.failAt = WritesIn(r.log) + 1
    THEN [r EXCEPT !.store = IF r.failApplied THEN adapterWrite(@, key, value) ELSE @,
                   !.log = Append(@, <<"failed", key>>),
                   !.err = "store"]
    ELSE [r EXCEPT !.store = adapterWrite(@, key, value),
                   !.log = Append(@, <<"write", key>>)]

runDelete(r, key) ==
    IF ~Running(r) THEN r
    ELSE [r EXCEPT !.store = adapterDelete(@, key),
                   !.log = Append(@, <<"delete", key>>)]

\* a call of the remote API for the record stored under key, answered by api
runRemote(r, key, api) ==
    [r EXCEPT !.remote = @ + 1,
              !.answers = Append(@, api),
              !.log = Append(@, <<"remote", key>>)]

runNext(r) == IF ~Running(r) THEN r ELSE [r EXCEPT !.log = Append(@, <<"next">>)]

(***************************************************************************)
(* The middleware of chatMembers(adapter, options).                        *)
(***************************************************************************)
DefaultOptions ==
    [enableAggressiveStorage |-> FALSE,
     removeLeftChatMembers |-> TRUE,
     removeLeftChats |-> TRUE]

AllOptions ==
    [enableAggressiveStorage : BOOLEAN,
     removeLeftChatMembers : BOOLEAN,
     removeLeftChats : BOOLEAN]

\* mutant: only "left" counts as leaving
isLeavingLeftOnly(chatMember) == chatMember.new_chat_member.status = "left"

\* mutant: every member outside the chat counts as leaving
isLeavingOut(chatMember) ==
    \/ chatMember.new_chat_member.status \in {"left", "kicked"}
    \/ /\ chatMember.new_chat_member.status = "restricted"
       /\ ~chatMember.new_chat_member.is_member

isLeaving(chatMember) == chatMember.new_chat_member.status \in {"left", "kicked"}

chatId(ctx) == toString(Val(ctx.chat).id)

userId(chatMember) == toString(chatMember.new_chat_member.user.id)

\* The answer of the remote API: a failure, or the member it reports.
ApiFailure == [ok |-> FALSE]

\* mutant: the fetched member is returned but not saved
getChatMemberNoWriteBack(r, ctx, chatIdArg, userIdArg, api) ==
    LET cid == IF Defined(chatIdArg) THEN chatIdArg
               ELSE IF Defined(ctx.chat) THEN Some(Val(ctx.chat).id) ELSE Undefined
        uid == IF Defined(userIdArg) THEN userIdArg
               ELSE IF Defined(ctx.from) THEN Some(Val(ctx.from).id) ELSE Undefined
    IN  IF ~Running(r) THEN r
        ELSE IF ~Defined(uid) THEN Throw(r, "no userId")
        ELSE IF ~Defined(cid) THEN Throw(r, "no chatId")
        ELSE
            LET key == <<"chat_members", toString(Val(cid)), toString(Val(uid))>>
                r1 == runRead(r, key)
                cachedChatMember == adapterRead(r1.store, key)
                r2 == runRemote(r1, key, api)
                chatMember == ChatMember(User(Val(uid), api.version), api.kind)
            IN  IF Defined(cachedChatMember)
                THEN [r1 EXCEPT !.result = cachedChatMember]
                ELSE IF ~api.ok THEN Throw(r2, "remote")
                ELSE [r2 EXCEPT !.result = Some(chatMember)]

\* mutant: the key is reserved in the store before the remote call is made
getChatMemberWriteFirst(r, ctx, chatIdArg, userIdArg, api) ==
    LET cid == IF Defined(chatIdArg) THEN chatIdArg
               ELSE IF Defined(ctx.chat) THEN Some(Val(ctx.chat).id) ELSE Undefined
        uid == IF Defined(userIdArg) THEN userIdArg
               ELSE IF Defined(ctx.from) THEN Some(Val(ctx.from).id) ELSE Undefined
    IN  IF ~Running(r) THEN r
        ELSE IF ~Defined(uid) THEN Throw(r, "no userId")
        ELSE IF ~Defined(cid) THEN Throw(r, "no chatId")
        ELSE
            LET key == <<"chat_members", toString(Val(cid)), toString(Val(uid))>>
                r1 == runRead(r, key)
                cachedChatMember == adapterRead(r1.store, key)
                r2 == runRemote(runWrite(r1, key, ChatMember(User(Val(uid), 1), "left")),
                                key, api)
                chatMember == ChatMember(User(Val(uid), api.version), api.kind)
            IN  IF Defined(cachedChatMember)
                THEN [r1 EXCEPT !.result = cachedChatMember]
                ELSE IF ~api.ok THEN Throw(r2, "remote")
                ELSE [runWrite(r2, key, chatMember) EXCEPT !.result = Some(chatMember)]

\* mutant: the event's chat and acting user take precedence over the arguments
getChatMemberCtxFirst(r, ctx, chatIdArg, userIdArg, api) ==
    LET cid == IF Defined(ctx.chat) THEN Some(Val(ctx.chat).id) ELSE chatIdArg
        uid == IF Defined(ctx.from) THEN Some(Val(ctx.from).id) ELSE userIdArg
    IN  IF ~Running(r) THEN r
        ELSE IF ~Defined(uid) THEN Throw(r, "no userId")
        ELSE IF ~Defined(cid) THEN Throw(r, "no chatId")
        ELSE
            LET key == <<"chat_members", toString(Val(cid)), toString(Val(uid))>>
                r1 == runRead(r, key)
                cachedChatMember == adapterRead(r1.store, key)
                r2 == runRemote(r1, key, api)
                chatMember == ChatMember(User(Val(uid), api.version), api.kind)
            IN  IF Defined(cachedChatMember)
                THEN [r1 EXCEPT !.result = cachedChatMember]
                ELSE IF ~api.ok THEN Throw(r2, "remote")
                ELSE [runWrite(r2, key, chatMember) EXCEPT !.result = Some(chatMember)]

\* ctx.chatMembers.getChatMember(chatId?, userId?): read-through lookup
getChatMember(r, ctx, chatIdArg, userIdArg, api) ==
    LET cid == IF Defined(chatIdArg) THEN chatIdArg
               ELSE IF Defined(ctx.chat) THEN Some(Val(ctx.chat).id) ELSE Undefined
        uid == IF Defined(userIdArg) THEN userIdArg
               ELSE IF Defined(ctx.from) THEN Some(Val(ctx.from).id) ELSE Undefined
    IN  IF ~Running(r) THEN r
        ELSE IF ~Defined(uid) THEN Throw(r, "no userId")
        ELSE IF ~Defined(cid) THEN Throw(r, "no chatId")
        ELSE
            LET key == <<"chat_members", toString(Val(cid)), toString(Val(uid))>>
                r1 == runRead(r, key)
                cachedChatMember == adapterRead(r1.store, key)
                r2 == runRemote(r1, key, api)
                chatMember == ChatMember(User(Val(uid), api.version), api.kind)
            IN  IF Defined(cachedChatMember)
                THEN [r1 EXCEPT !.result = cachedChatMember]
                ELSE IF ~api.ok THEN Throw(r2, "remote")
                ELSE [runWrite(r2, key, chatMember) EXCEPT !.result = Some(chatMember)]

\* mutant: a user that is not stored is saved as a stub and returned
getUserStub(r, ctx, userIdArg) ==
    LET uid == IF Defined(userIdArg) THEN userIdArg
               ELSE IF Defined(ctx.from) THEN Some(Val(ctx.from).id) ELSE Undefined
    IN  IF ~Running(r) THEN r
        ELSE IF ~Defined(uid) THEN Throw(r, "no userId")
        ELSE
            LET key == <<"users", toString(Val(uid))>>
                r1 == runRead(r, key)
                r2 == IF adapterHas(r1.store, key) THEN r1
                      ELSE runWrite(r1, key, User(Val(uid), 1))
            IN  [r2 EXCEPT !.result = adapterRead(r2.store, key)]

\* ctx.chatMembers.getUser(userId?): store only
getUser(r, ctx, userIdArg) ==
    LET uid == IF Defined(userIdArg) THEN userIdArg
               ELSE IF Defined(ctx.from) THEN Some(Val(ctx.from).id) ELSE Undefined
    IN  IF ~Running(r) THEN r
        ELSE IF ~Defined(uid) THEN Throw(r, "no userId")
        ELSE
            LET key == <<"users", toString(Val(uid))>>
                r1 == runRead(r, key)
            IN  [r1 EXCEPT !.result = adapterRead(r1.store, key)]

\* ctx.chatMembers.getChat(chatId?): read-through lookup
getChat(r, ctx, chatIdArg, api) ==
    LET cid == IF Defined(chatIdArg) THEN chatIdArg
               ELSE IF Defined(ctx.chat) THEN Some(Val(ctx.chat).id) ELSE Undefined
    IN  IF ~Running(r) THEN r
        ELSE IF ~Defined(cid) THEN Throw(r, "no chatId")
        ELSE
            LET key == <<"chats", toString(Val(cid))>>
                r1 == runRead(r, key)
                cachedChat == adapterRead(r1.store, key)
                r2 == runRemote(r1, key, api)
                chat == Chat(Val(cid), api.version)
            IN  IF Defined(cachedChat)
                THEN [r1 EXCEPT !.result = cachedChat]
                ELSE IF ~api.ok THEN Throw(r2, "remote")
                ELSE [runWrite(r2, key, chat) EXCEPT !.result = Some(chat)]

\* What `if (adapter.has(key))` sees: has() is not awaited, so the answer of an
\* adapter whose has() returns a promise is the promise itself, which is truthy.
hasIsTruthy(s, key) == IF asyncHas THEN TRUE ELSE adapterHas(s, key)

\* mutant: the record is written whether or not the key is stored
writeIfNewAlways(r, key, value) ==
    IF ~Running(r) THEN r ELSE runWrite(runHas(r, key), key, value)

\* writeIfNew(key, value)
writeIfNew(r, key, value) ==
    IF ~Running(r) THEN r
    ELSE LET r1 == runHas(r, key)
         IN  IF hasIsTruthy(r1.store, key) THEN r1 ELSE runWrite(r1, key, value)

\* mutant: with removeLeft.chats off, a chat the bot left is upserted
myChatMemberBranchUpsertLeft(r, upd) ==
    IF upd.type # "my_chat_member" THEN r
    ELSE IF isLeaving(upd)
    THEN IF ~options.removeLeftChats
         THEN runWrite(r, <<"chats", chatId(upd)>>, Val(upd.chat))
         ELSE runDelete(r, <<"chats", chatId(upd)>>)
    ELSE
        LET r1 == runWrite(r, <<"users", userId(upd)>>, Val(upd.from))
        IN  runWrite(r1, <<"chats", chatId(upd)>>, Val(upd.chat))

\* mutant: the chat is saved only if it is not stored yet
myChatMemberBranchKeepOld(r, upd) ==
    IF upd.type # "my_chat_member" THEN r
    ELSE IF isLeaving(upd)
    THEN IF ~options.removeLeftChats THEN r
         ELSE runDelete(r, <<"chats", chatId(upd)>>)
    ELSE
        LET r1 == runWrite(r, <<"users", userId(upd)>>, Val(upd.from))
        IN  IF adapterHas(r1.store, <<"chats", chatId(upd)>>) THEN r1
            ELSE runWrite(r1, <<"chats", chatId(upd)>>, Val(upd.chat))

\* composer.on("my_chat_member").branch(isLeaving, ..., ...)
myChatMemberBranch(r, upd) ==
    IF upd.type # "my_chat_member" THEN r
    ELSE IF isLeaving(upd)
    THEN IF ~options.removeLeftChats THEN r
         ELSE runDelete(r, <<"chats", chatId(upd)>>)
    ELSE
        LET r1 == runWrite(r, <<"users", userId(upd)>>, Val(upd.from))
        IN  runWrite(r1, <<"chats", chatId(upd)>>, Val(upd.chat))

\* mutant: the user record is taken from the acting user, as in the
\* my_chat_member branch
chatMemberBranchFromUser(r, upd) ==
    IF upd.type # "chat_member" THEN r
    ELSE IF isLeaving(upd)
    THEN IF ~options.removeLeftChatMembers THEN r
         ELSE runDelete(r, <<"chat_members", chatId(upd), userId(upd)>>)
    ELSE
        LET r1 == runWrite(r, <<"users", userId(upd)>>, Val(upd.from))
            r2 == runWrite(r1, <<"chats", chatId(upd)>>, Val(upd.chat))
        IN  runWrite(r2, <<"chat_members", chatId(upd), userId(upd)>>,
                     upd.new_chat_member)

\* mutant: a leaving member's user record is deleted with the membership record
chatMemberBranchDeleteUser(r, upd) ==
    IF upd.type # "chat_member" THEN r
    ELSE IF isLeaving(upd)
    THEN IF ~options.removeLeftChatMembers THEN r
         ELSE runDelete(runDelete(r, <<"chat_members", chatId(upd), userId(upd)>>),
                        <<"users", userId(upd)>>)
    ELSE
        LET r1 == runWrite(r, <<"users", userId(upd)>>, upd.new_chat_member.user)
            r2 == runWrite(r1, <<"chats", chatId(upd)>>, Val(upd.chat))
        IN  runWrite(r2, <<"chat_members", chatId(upd), userId(upd)>>,
                     upd.new_chat_member)

\* mutant: the membership record is stored under the chat alone
chatMemberBranchChatKey(r, upd) ==
    IF upd.type # "chat_member" THEN r
    ELSE IF isLeaving(upd)
    THEN IF ~options.removeLeftChatMembers THEN r
         ELSE runDelete(r, <<"chat_members", chatId(upd)>>)
    ELSE
        LET r1 == runWrite(r, <<"users", userId(upd)>>, upd.new_chat_member.user)
            r2 == runWrite(r1, <<"chats", chatId(upd)>>, Val(upd.chat))
        IN  runWrite(r2, <<"chat_members", chatId(upd)>>, upd.new_chat_member)

\* mutant: a leaving member's chat record is deleted with the membership record
chatMemberBranchDeleteChat(r, upd) ==
    IF upd.type # "chat_member" THEN r
    ELSE IF isLeaving(upd)
    THEN IF ~options.removeLeftChatMembers THEN r
         ELSE runDelete(runDelete(r, <<"chat_members", chatId(upd), userId(upd)>>),
                        <<"chats", chatId(upd)>>)
    ELSE
        LET r1 == runWrite(r, <<"users", userId(upd)>>, upd.new_chat_member.user)
            r2 == runWrite(r1, <<"chats", chatId(upd)>>, Val(upd.chat))
        IN  runWrite(r2, <<"chat_members", chatId(upd), userId(upd)>>,
                     upd.new_chat_member)

\* composer.on("chat_member").branch(isLeaving, ..., ...)
chatMemberBranch(r, upd) ==
    IF upd.type # "chat_member" THEN r
    ELSE IF isLeaving(upd)
    THEN IF ~options.removeLeftChatMembers THEN r
         ELSE runDelete(r, <<"chat_members", chatId(upd), userId(upd)>>)
    ELSE
        LET r1 == runWrite(r, <<"users", userId(upd)>>, upd.new_chat_member.user)
            r2 == runWrite(r1, <<"chats", chatId(upd)>>, Val(upd.chat))
        IN  runWrite(r2, <<"chat_members", chatId(upd), userId(upd)>>,
                     upd.new_chat_member)

\* mutant: the read-through lookup is made in private chats too
aggressiveStorageAnyChat(r, upd, api) ==
    IF ~options.enableAggressiveStorage THEN r
    ELSE
        LET r1 == IF Defined(upd.chat) /\ Defined(upd.from)
                  THEN getChatMember(r, upd, Undefined, Undefined, api)
                  ELSE r
            r2 == IF Defined(upd.chat)
                  THEN writeIfNew(r1, <<"chats", toString(Val(upd.chat).id)>>, Val(upd.chat))
                  ELSE r1
        IN  IF Defined(upd.from)
            THEN writeIfNew(r2, <<"users", toString(Val(upd.from).id)>>, Val(upd.from))
            ELSE r2

\* composer.filter(() => enableAggressiveStorage).use(...)
aggressiveStorage(r, upd, api) ==
    IF ~options.enableAggressiveStorage THEN r
    ELSE
        LET r1 == IF /\ Defined(upd.chat)
                     /\ Defined(upd.from)
                     /\ Val(upd.chat).type # "private"
                  THEN getChatMember(r, upd, Undefined, Undefined, api)
                  ELSE r
            r2 == IF Defined(upd.chat)
                  THEN writeIfNew(r1, <<"chats", toString(Val(upd.chat).id)>>, Val(upd.chat))
                  ELSE r1
        IN  IF Defined(upd.from)
            THEN writeIfNew(r2, <<"users", toString(Val(upd.from).id)>>, Val(upd.from))
            ELSE r2

\* mutant: the error of the chain is caught and the downstream middleware runs
handleUpdateFromCaught(r, upd, api) ==
    LET r1 == myChatMemberBranch(r, upd)
        r2 == chatMemberBranch(r1, upd)
        r3 == aggressiveStorage(r2, upd, api)
    IN  [r3 EXCEPT !.result = Undefined, !.log = Append(@, <<"next">>)]

\* the chain of chatMembers(adapter, options) from the start r of a run
handleUpdateFrom(r, upd, api) ==
    LET r1 == myChatMemberBranch(r, upd)
        r2 == chatMemberBranch(r1, upd)
        r3 == aggressiveStorage(r2, upd, api)
    IN  runNext([r3 EXCEPT !.result = Undefined])

\* mutant: the downstream middleware is invoked before the aggressive storage step
handleUpdateNextEarly(s, upd, api) ==
    LET r1 == myChatMemberBranch(StartRun(s), upd)
        r2 == chatMemberBranch(r1, upd)
        r3 == aggressiveStorage(runNext(r2), upd, api)
    IN  [r3 EXCEPT !.result = Undefined]

\* the chain of chatMembers(adapter, options), then the downstream middleware
handleUpdate(s, upd, api) ==
    LET r1 == myChatMemberBranch(StartRun(s), upd)
        r2 == chatMemberBranch(r1, upd)
        r3 == aggressiveStorage(r2, upd, api)
    IN  runNext([r3 EXCEPT !.result = Undefined])

(***************************************************************************)
(* Updates and accessor calls.  Every operation sees one snapshot of the   *)
(* metadata of chats and users; a new snapshot can appear with each        *)
(* operation.  chat_member updates come from group chats only (the bot     *)
(* must be an administrator), and in a private chat the acting user is the *)
(* chat's user.                                                            *)
(***************************************************************************)
Snapshots == 1..(n + 1)

GroupIds == {c \in ChatIds : c < 0}

Optional(S) == {Undefined} \cup {Some(x) : x \in S}

ChatMemberUpdates ==
    {[type |-> "chat_member", chat |-> Some(Chat(c, v)), from |-> Some(User(f, v)),
      new_chat_member |-> ChatMember(User(u, v), k)] :
        c \in GroupIds, f \in UserIds, u \in UserIds, k \in MemberKinds, v \in Snapshots}

MyChatMemberUpdates ==
    {[type |-> "my_chat_member", chat |-> Some(Chat(p[1], v)),
      from |-> Some(User(p[2], v)), new_chat_member |-> ChatMember(BotUser, k)] :
        p \in {q \in ChatIds \X UserIds : q[1] < 0 \/ q[2] = q[1]},
        k \in MemberKinds, v \in Snapshots}

\* any other update: a message, a channel post, an inline query, a poll, ...
OtherUpdates ==
    {[type |-> "message", chat |-> c, from |-> f] :
        c \in Optional({Chat(x, v) : x \in ChatIds, v \in Snapshots}),
        f \in Optional({User(x, v) : x \in UserIds, v \in Snapshots})}

\* the context an accessor is called in: the chat and the acting user of an update
Contexts ==
    [chat : Optional({Chat(c, 1) : c \in GroupIds}),
     from : Optional({User(u, 1) : u \in {1}})]

\* the answers the remote API may give to a call made while a snapshot is current
ApiAnswers ==
    {ApiFailure} \cup [ok : {TRUE}, kind : ApiKinds, version : Snapshots]

\* The remote API answers only when it is called: the answers to a run, given
\* the same run with a failing API.
ApiAnswersTo(r) == IF r.remote = 0 THEN {ApiFailure} ELSE ApiAnswers

Outcome(r) ==
    [log |-> r.log, remote |-> r.remote, answers |-> r.answers, err |-> r.err,
     result |-> r.result]

\* the keys fetched and still stored, after the operations log[i..] of a run
RECURSIVE FetchedAfter(_, _, _)
FetchedAfter(F, log, i) ==
    IF i > Len(log) THEN F
    ELSE IF log[i][1] = "delete" THEN FetchedAfter(F \ {log[i][2]}, log, i + 1)
    ELSE IF log[i][1] = "write" /\ i > 1 /\ log[i - 1] = <<"remote", log[i][2]>>
    THEN FetchedAfter(F \cup {log[i][2]}, log, i + 1)
    ELSE FetchedAfter(F, log, i + 1)

NoOutcome == Outcome(StartRun(EmptyStore))

Process(op, r) ==
    /\ n' = n + 1
    /\ pre' = store
    /\ store' = r.store
    /\ last' = op
    /\ out' = Outcome(r)
    /\ fetched' = FetchedAfter(fetched, r.log, 1)
    /\ UNCHANGED <<options, asyncHas, joined, filterVars, storageVars, hydrateVars, concVars>>

\* a chat_member update passes through the middleware
ProcessChatMember ==
    /\ n < MaxEvents
    /\ \E upd \in ChatMemberUpdates :
        \E api \in ApiAnswersTo(handleUpdate(store, upd, ApiFailure)) :
            Process([op |-> "update", update |-> upd], handleUpdate(store, upd, api))

\* a my_chat_member update passes through the middleware
ProcessMyChatMember ==
    /\ n < MaxEvents
    /\ \E upd \in MyChatMemberUpdates :
        \E api \in ApiAnswersTo(handleUpdate(store, upd, ApiFailure)) :
            Process([op |-> "update", update |-> upd], handleUpdate(store, upd, api))

\* any other update passes through the middleware
ProcessOther ==
    /\ n < MaxEvents
    /\ \E upd \in OtherUpdates :
        \E api \in ApiAnswersTo(handleUpdate(store, upd, ApiFailure)) :
            Process([op |-> "update", update |-> upd], handleUpdate(store, upd, api))

\* a downstream handler calls ctx.chatMembers.getChatMember
CallGetChatMember ==
    /\ n < MaxEvents
    /\ \E ctx \in Contexts, c \in Optional(ChatIds), u \in Optional(UserIds) :
        \E api \in ApiAnswersTo(getChatMember(StartRun(store), ctx, c, u, ApiFailure)) :
            Process([op |-> "getChatMember", ctx |-> ctx, chatId |-> c, userId |-> u],
                    getChatMember(StartRun(store), ctx, c, u, api))

\* a downstream handler calls ctx.chatMembers.getUser
CallGetUser ==
    /\ n < MaxEvents
    /\ \E ctx \in Contexts, u \in Optional(UserIds) :
            Process([op |-> "getUser", ctx |-> ctx, userId |-> u],
                    getUser(StartRun(store), ctx, u))

\* a downstream handler calls ctx.chatMembers.getChat
CallGetChat ==
    /\ n < MaxEvents
    /\ \E ctx \in Contexts, c \in Optional(ChatIds) :
        \E api \in ApiAnswersTo(getChat(StartRun(store), ctx, c, ApiFailure)) :
            Process([op |-> "getChat", ctx |-> ctx, chatId |-> c],
                    getChat(StartRun(store), ctx, c, api))

Init ==
    /\ store = EmptyStore
    /\ options \in AllOptions
    /\ last = [op |-> "none"]
    /\ pre = EmptyStore
    /\ out = NoOutcome
    /\ n = 0
    /\ fetched = {}
    /\ asyncHas \in BOOLEAN
    /\ fMember = Undefined
    /\ fQuery = Undefined
    /\ fResult = Undefined
    /\ uUpdate = Undefined
    /\ uFilter = Undefined
    /\ uResult = Undefined
    /\ joined = {}
    /\ now = 0
    /\ written = EmptyStore
    /\ hCall = Undefined
    /\ hResult = Undefined
    /\ pending = Undefined

Next ==
    \/ ProcessChatMember
    \/ ProcessMyChatMember
    \/ ProcessOther
    \/ CallGetChatMember
    \/ CallGetUser
    \/ CallGetChat

Spec == Init /\ [][Next]_vars

(***************************************************************************)
(* The hierarchical middleware over a store whose writes can fail.         *)
(***************************************************************************)
\* a chat_member update passes through the middleware while the k-th write fails
ProcessChatMemberFault ==
    /\ n < MaxEvents
    /\ \E upd \in ChatMemberUpdates, k \in 1..3, applied \in BOOLEAN :
        \E api \in ApiAnswersTo(handleUpdate(store, upd, ApiFailure)) :
            Process([op |-> "update", update |-> upd],
                    handleUpdateFrom(WithFault(StartRun(store), k, applied), upd, api))

InitFault ==
    /\ store = EmptyStore
    /\ options \in AllOptions
    /\ last = [op |-> "none"]
    /\ pre = EmptyStore
    /\ out = NoOutcome
    /\ n = 0
    /\ fetched = {}
    /\ asyncHas = FALSE
    /\ fMember = Undefined
    /\ fQuery = Undefined
    /\ fResult = Undefined
    /\ uUpdate = Undefined
    /\ uFilter = Undefined
    /\ uResult = Undefined
    /\ joined = {}
    /\ now = 0
    /\ written = EmptyStore
    /\ hCall = Undefined
    /\ hResult = Undefined
    /\ pending = Undefined

NextFault ==
    \/ ProcessChatMember
    \/ ProcessChatMemberFault

SpecFault == InitFault /\ [][NextFault]_vars

(***************************************************************************)
(* The hierarchical middleware under concurrent dispatch.  A read-through  *)
(* of getChatMember suspends at `await ctx.api.getChatMember`: between its *)
(* read of the store and its write-back other updates can be processed.    *)
(***************************************************************************)
\* steps in one behaviour
MaxConcSteps == 3

MemberKey(c, u) == <<"chat_members", toString(c), toString(u)>>

\* mutant: the write-back is skipped when the key has been stored meanwhile
writeBackIfAbsent(s, p, api) ==
    LET r2 == runRemote(StartRun(s), p.key, api)
        chatMember == ChatMember(User(p.userId, api.version), api.kind)
    IN  IF ~api.ok THEN Throw(r2, "remote")
        ELSE IF adapterHas(s, p.key) THEN [r2 EXCEPT !.result = Some(chatMember)]
        ELSE [runWrite(r2, p.key, chatMember) EXCEPT !.result = Some(chatMember)]

\* getChatMember from the answer of the remote API on: the write-back
writeBack(s, p, api) ==
    LET r2 == runRemote(StartRun(s), p.key, api)
        chatMember == ChatMember(User(p.userId, api.version), api.kind)
    IN  IF ~api.ok THEN Throw(r2, "remote")
        ELSE [runWrite(r2, p.key, chatMember) EXCEPT !.result = Some(chatMember)]

ConcStep(op, s, outcome, pend) ==
    /\ n' = n + 1
    /\ pre' = store
    /\ store' = s
    /\ last' = op
    /\ out' = outcome
    /\ pending' = pend
    /\ UNCHANGED <<options, fetched, asyncHas, joined, filterVars, storageVars, hydrateVars>>

\* getChatMember(c, u) reads the store: a hit returns, a miss calls the remote API
StartReadThrough ==
    /\ n < MaxConcSteps
    /\ pending = Undefined
    /\ \E c \in GroupIds, u \in UserIds :
        LET key == MemberKey(c, u)
            r1 == runRead(StartRun(store), key)
            cachedChatMember == adapterRead(store, key)
        IN  IF Defined(cachedChatMember)
            THEN ConcStep([op |-> "hit", key |-> key], store,
                          Outcome([r1 EXCEPT !.result = cachedChatMember]), Undefined)
            ELSE ConcStep([op |-> "miss", key |-> key], store, Outcome(r1),
                          Some([key |-> key, userId |-> u, event |-> Undefined]))

\* the chat_member updates of this model: sent by user 1, with the metadata of
\* the current snapshot
ConcChatMemberUpdates ==
    {upd \in ChatMemberUpdates :
        Val(upd.from).id = 1 /\ Val(upd.chat).title = n + 1}

\* a chat_member update is processed, possibly while a read-through waits
ConcProcessChatMember ==
    /\ n < MaxConcSteps
    /\ \E upd \in ConcChatMemberUpdates :
        \E api \in ApiAnswersTo(handleUpdate(store, upd, ApiFailure)) :
            LET r == handleUpdate(store, upd, api)
                key == MemberKey(Val(upd.chat).id, upd.new_chat_member.user.id)
            IN  ConcStep([op |-> "update", update |-> upd], r.store, Outcome(r),
                         IF Defined(pending) /\ Val(pending).key = key
                         THEN Some([Val(pending) EXCEPT !.event = Some(upd)])
                         ELSE pending)

\* the remote API answers the waiting read-through
FinishReadThrough ==
    /\ n < MaxConcSteps
    /\ Defined(pending)
    /\ \E api \in ApiAnswers :
        LET r == writeBack(store, Val(pending), api)
        IN  ConcStep([op |-> "writeBack", key |-> Val(pending).key,
                      userId |-> Val(pending).userId,
                      event |-> Val(pending).event, api |-> api],
                     r.store, Outcome(r), Undefined)

InitConcurrent ==
    /\ store = EmptyStore
    /\ options \in AllOptions
    /\ last = [op |-> "none"]
    /\ pre = EmptyStore
    /\ out = NoOutcome
    /\ n = 0
    /\ fetched = {}
    /\ asyncHas = FALSE
    /\ fMember = Undefined
    /\ fQuery = Undefined
    /\ fResult = Undefined
    /\ uUpdate = Undefined
    /\ uFilter = Undefined
    /\ uResult = Undefined
    /\ joined = {}
    /\ now = 0
    /\ written = EmptyStore
    /\ hCall = Undefined
    /\ hResult = Undefined
    /\ pending = Undefined

NextConcurrent ==
    \/ StartReadThrough
    \/ ConcProcessChatMember
    \/ FinishReadThrough

SpecConcurrent == InitConcurrent /\ [][NextConcurrent]_vars

(***************************************************************************)
(* mod.ts: the flat-key chatMembers middleware.  One record per key        *)
(* getKey(chatId, userId); the adapter's keys are strings.                 *)
(***************************************************************************)
FlatDefaultOptions ==
    [keepLeftChatMembers |-> FALSE, enableAggressiveStorage |-> FALSE, getKey |-> "default"]

\* getKey is the default strategy or one that considers only the user id
FlatOptions ==
    [keepLeftChatMembers : BOOLEAN,
     enableAggressiveStorage : BOOLEAN,
     getKey : {"default", "userOnly"}]

defaultKeyStrategy(chatIdArg, userIdArg) ==
    toString(chatIdArg) \o "_" \o toString(userIdArg)

getKey(chatIdArg, userIdArg) ==
    IF options.getKey = "userOnly" THEN toString(userIdArg)
    ELSE defaultKeyStrategy(chatIdArg, userIdArg)

isDeletedStatus(status) == status \in {"left", "kicked"}

\* ctx.chatMembers.getChatMember(chatId?, userId?) of the flat-key middleware
flatGetChatMember(r, ctx, chatIdArg, userIdArg, api) ==
    LET cid == IF Defined(chatIdArg) THEN chatIdArg
               ELSE IF Defined(ctx.chat) THEN Some(Val(ctx.chat).id) ELSE Undefined
        uid == IF Defined(userIdArg) THEN userIdArg
               ELSE IF Defined(ctx.from) THEN Some(Val(ctx.from).id) ELSE Undefined
    IN  IF ~Running(r) THEN r
        ELSE IF ~Defined(uid) THEN Throw(r, "no userId")
        ELSE IF ~Defined(cid) THEN Throw(r, "no chatId")
        ELSE
            LET key == getKey(Val(cid), Val(uid))
                r1 == runRead(r, key)
                cachedChatMember == adapterRead(r1.store, key)
                r2 == runRemote(r1, key, api)
                chatMember == ChatMember(User(Val(uid), api.version), api.kind)
            IN  IF Defined(cachedChatMember)
                THEN [r1 EXCEPT !.result = cachedChatMember]
                ELSE IF ~api.ok THEN Throw(r2, "remote")
                ELSE [runWrite(r2, key, chatMember) EXCEPT !.result = Some(chatMember)]

\* mutant: the record of a member who left is kept and updated
flatChatMemberKeepLeft(r, upd) ==
    IF upd.type # "chat_member" THEN r
    ELSE runWrite(r, getKey(Val(upd.chat).id, upd.new_chat_member.user.id),
                  upd.new_chat_member)

\* composer.on("chat_member", ...) of the flat-key middleware
flatChatMember(r, upd) ==
    IF upd.type # "chat_member" THEN r
    ELSE
        LET key == getKey(Val(upd.chat).id, upd.new_chat_member.user.id)
            status == upd.new_chat_member.status
            r1 == runRead(r, key)
        IN  IF isDeletedStatus(status) /\ ~options.keepLeftChatMembers
            THEN IF Defined(adapterRead(r1.store, key)) THEN runDelete(r1, key) ELSE r1
            ELSE runWrite(r, key, upd.new_chat_member)

\* composer.filter(() => enableAggressiveStorage).filter(chat and from).use(...)
flatAggressiveStorage(r, upd, api) ==
    IF ~options.enableAggressiveStorage THEN r
    ELSE IF ~(Defined(upd.chat) /\ Defined(upd.from)) THEN r
    ELSE flatGetChatMember(r, upd, Some(Val(upd.from).id), Undefined, api)

\* the chain of the flat-key chatMembers(adapter, options), then downstream
flatHandleUpdate(s, upd, api) ==
    LET r1 == flatChatMember(StartRun(s), upd)
        r2 == flatAggressiveStorage(r1, upd, api)
    IN  runNext([r2 EXCEPT !.result = Undefined])

\* the group chats of the flat-key model
FlatGroupIds == {-1, -3}

FlatChatMemberUpdates ==
    {[type |-> "chat_member", chat |-> Some(Chat(c, v)), from |-> Some(User(f, v)),
      new_chat_member |-> ChatMember(User(u, v), k)] :
        c \in FlatGroupIds, f \in UserIds, u \in UserIds, k \in MemberKinds, v \in Snapshots}

\* the memberships recorded after a chat_member update
JoinedAfter(upd) ==
    LET pair == <<Val(upd.chat).id, upd.new_chat_member.user.id>>
    IN  IF upd.new_chat_member.status \in {"left", "kicked"}
        THEN joined \ {pair}
        ELSE joined \cup {pair}

FlatProcess(op, r) ==
    /\ n' = n + 1
    /\ pre' = store
    /\ store' = r.store
    /\ last' = op
    /\ out' = Outcome(r)
    /\ fetched' = FetchedAfter(fetched, r.log, 1)
    /\ joined' = JoinedAfter(op.update)
    /\ UNCHANGED <<options, asyncHas, filterVars, storageVars, hydrateVars, concVars>>

\* a chat_member update passes through the flat-key middleware
FlatProcessChatMember ==
    /\ n < MaxEvents
    /\ \E upd \in FlatChatMemberUpdates :
        \E api \in ApiAnswersTo(flatHandleUpdate(store, upd, ApiFailure)) :
            FlatProcess([op |-> "update", update |-> upd],
                        flatHandleUpdate(store, upd, api))

\* any other update passes through the flat-key middleware
FlatProcessOther ==
    /\ n < MaxEvents
    /\ \E upd \in OtherUpdates \cup MyChatMemberUpdates :
        \E api \in ApiAnswersTo(flatHandleUpdate(store, upd, ApiFailure)) :
            Process([op |-> "update", update |-> upd], flatHandleUpdate(store, upd, api))

\* a downstream handler calls ctx.chatMembers.getChatMember
FlatCallGetChatMember ==
    /\ n < MaxEvents
    /\ \E ctx \in Contexts, c \in Optional(ChatIds), u \in Optional(UserIds) :
        \E api \in ApiAnswersTo(flatGetChatMember(StartRun(store), ctx, c, u, ApiFailure)) :
            Process([op |-> "getChatMember", ctx |-> ctx, chatId |-> c, userId |-> u],
                    flatGetChatMember(StartRun(store), ctx, c, u, api))

InitFlat ==
    /\ store = EmptyStore
    /\ options \in FlatOptions
    /\ last = [op |-> "none"]
    /\ pre = EmptyStore
    /\ out = NoOutcome
    /\ n = 0
    /\ fetched = {}
    /\ asyncHas = FALSE
    /\ fMember = Undefined
    /\ fQuery = Undefined
    /\ fResult = Undefined
    /\ uUpdate = Undefined
    /\ uFilter = Undefined
    /\ uResult = Undefined
    /\ joined = {}
    /\ now = 0
    /\ written = EmptyStore
    /\ hCall = Undefined
    /\ hResult = Undefined
    /\ pending = Undefined

NextFlat ==
    \/ FlatProcessChatMember
    \/ FlatProcessOther
    \/ FlatCallGetChatMember

SpecFlat == InitFlat /\ [][NextFlat]_vars

(***************************************************************************)
(* mod.ts: the chats middleware.  One record per chat, under the chat id   *)
(* as a string.                                                            *)
(***************************************************************************)
ChatsOptions ==
    [storePrivateChats : BOOLEAN,
     keepLeftChats : BOOLEAN,
     enableAggressiveStorage : BOOLEAN]

\* ctx.hasChatType("private")
hasChatTypePrivate(ctx) == Defined(ctx.chat) /\ Val(ctx.chat).type = "private"

\* ctx.chatMembers.getChat(chatId?) of the chats middleware
chatsGetChat(r, ctx, chatIdArg, api) ==
    LET cid == IF Defined(chatIdArg) THEN chatIdArg
               ELSE IF Defined(ctx.chat) THEN Some(Val(ctx.chat).id) ELSE Undefined
    IN  IF ~Running(r) THEN r
        ELSE IF ~Defined(cid) THEN Throw(r, "no chatId")
        ELSE
            LET key == toString(Val(cid))
                r1 == runRead(r, key)
                cachedChat == adapterRead(r1.store, key)
                r2 == runRemote(r1, key, api)
                chat == Chat(Val(cid), api.version)
            IN  IF Defined(cachedChat)
                THEN [r1 EXCEPT !.result = cachedChat]
                ELSE IF ~api.ok THEN Throw(r2, "remote")
                ELSE [runWrite(r2, key, chat) EXCEPT !.result = Some(chat)]

\* composer.filter(not private or storePrivateChats).on("my_chat_member", ...)
chatsMyChatMember(r, upd) ==
    IF ~(~hasChatTypePrivate(upd) \/ options.storePrivateChats) THEN r
    ELSE IF upd.type # "my_chat_member" THEN r
    ELSE
        LET key == toString(Val(upd.chat).id)
            r1 == runRead(r, key)
        IN  IF isDeletedStatus(upd.new_chat_member.status) /\ ~options.keepLeftChats
            THEN IF Defined(adapterRead(r1.store, key)) THEN runDelete(r1, key) ELSE r1
            ELSE runWrite(r, key, Val(upd.chat))

\* composer.filter(() => enableAggressiveStorage).filter(chat).use(...)
chatsAggressiveStorage(r, upd) ==
    IF ~options.enableAggressiveStorage THEN r
    ELSE IF ~Defined(upd.chat) THEN r
    ELSE runWrite(r, toString(Val(upd.chat).id), Val(upd.chat))

\* the chain of chats(adapter, options), then the downstream middleware
chatsHandleUpdate(s, upd) ==
    LET r1 == chatsMyChatMember(StartRun(s), upd)
        r2 == chatsAggressiveStorage(r1, upd)
    IN  runNext([r2 EXCEPT !.result = Undefined])

\* a my_chat_member update passes through the chats middleware
ChatsProcessMyChatMember ==
    /\ n < MaxEvents
    /\ \E upd \in MyChatMemberUpdates :
        Process([op |-> "update", update |-> upd], chatsHandleUpdate(store, upd))

\* any other update passes through the chats middleware
ChatsProcessOther ==
    /\ n < MaxEvents
    /\ \E upd \in OtherUpdates \cup ChatMemberUpdates :
        Process([op |-> "update", update |-> upd], chatsHandleUpdate(store, upd))

\* a downstream handler calls ctx.chatMembers.getChat
ChatsCallGetChat ==
    /\ n < MaxEvents
    /\ \E ctx \in Contexts, c \in Optional(ChatIds) :
        \E api \in ApiAnswersTo(chatsGetChat(StartRun(store), ctx, c, ApiFailure)) :
            Process([op |-> "getChat", ctx |-> ctx, chatId |-> c],
                    chatsGetChat(StartRun(store), ctx, c, api))

InitChats ==
    /\ store = EmptyStore
    /\ options \in ChatsOptions
    /\ last = [op |-> "none"]
    /\ pre = EmptyStore
    /\ out = NoOutcome
    /\ n = 0
    /\ fetched = {}
    /\ asyncHas = FALSE
    /\ fMember = Undefined
    /\ fQuery = Undefined
    /\ fResult = Undefined
    /\ uUpdate = Undefined
    /\ uFilter = Undefined
    /\ uResult = Undefined
    /\ joined = {}
    /\ now = 0
    /\ written = EmptyStore
    /\ hCall = Undefined
    /\ hResult = Undefined
    /\ pending = Undefined

NextChats ==
    \/ ChatsProcessMyChatMember
    \/ ChatsProcessOther
    \/ ChatsCallGetChat

SpecChats == InitChats /\ [][NextChats]_vars

(***************************************************************************)
(* filters.ts: the classification of chat members.  A query is a name      *)
(* (a string in the source) or an array of queries.                        *)
(***************************************************************************)
\* items of the longest array query
MaxQueryLen == 2

Query(name) == [tag |-> "string", name |-> name]
QueryArray(items) == [tag |-> "array", items |-> items]

QueryNames ==
    {"in", "out", "free", "admin", "regular", "restricted_in", "restricted_out"}
        \cup RawStatuses

\* mutant: "out" expands to the raw statuses left and kicked only
chatMemberQueriesRawOut ==
    [admin |-> <<"administrator", "creator">>,
     administrator |-> <<"administrator">>,
     creator |-> <<"creator">>,
     free |-> <<"administrator", "creator", "member">>,
     in |-> <<"administrator", "creator", "member", "restricted_in">>,
     out |-> <<"kicked", "left">>,
     regular |-> <<"member", "restricted_in">>,
     kicked |-> <<"kicked">>,
     left |-> <<"left">>,
     member |-> <<"member">>,
     restricted |-> <<"restricted">>,
     restricted_in |-> <<"restricted_in">>,
     restricted_out |-> <<"restricted_out">>]

\* mutant: "regular" also covers administrators
chatMemberQueriesRegularWide ==
    [admin |-> <<"administrator", "creator">>,
     administrator |-> <<"administrator">>,
     creator |-> <<"creator">>,
     free |-> <<"administrator", "creator", "member">>,
     in |-> <<"administrator", "creator", "member", "restricted_in">>,
     out |-> <<"kicked", "left", "restricted_out">>,
     regular |-> <<"member", "restricted_in", "administrator">>,
     kicked |-> <<"kicked">>,
     left |-> <<"left">>,
     member |-> <<"member">>,
     restricted |-> <<"restricted">>,
     restricted_in |-> <<"restricted_in">>,
     restricted_out |-> <<"restricted_out">>]

chatMemberQueries ==
    [admin |-> <<"administrator", "creator">>,
     administrator |-> <<"administrator">>,
     creator |-> <<"creator">>,
     free |-> <<"administrator", "creator", "member">>,
     in |-> <<"administrator", "creator", "member", "restricted_in">>,
     out |-> <<"kicked", "left", "restricted_out">>,
     regular |-> <<"member", "restricted_in">>,
     kicked |-> <<"kicked">>,
     left |-> <<"left">>,
     member |-> <<"member">>,
     restricted |-> <<"restricted">>,
     restricted_in |-> <<"restricted_in">>,
     restricted_out |-> <<"restricted_out">>]

\* Array.prototype.includes
includes(seq, x) == \E i \in 1..Len(seq) : seq[i] = x

\* [...new Set(seq)]: the first occurrence of each element, in order
RECURSIVE uniq(_)
uniq(seq) ==
    IF seq = <<>> THEN <<>>
    ELSE LET init == uniq(SubSeq(seq, 1, Len(seq) - 1))
             x == seq[Len(seq)]
         IN  IF includes(init, x) THEN init ELSE Append(init, x)

RECURSIVE normalizeChatMemberQuery(_)
RECURSIVE flatMapNormalize(_)
RECURSIVE flatMapNormalizeShallow(_)

\* mutant: arrays inside an array are skipped instead of normalized
flatMapNormalizeShallow(items) ==
    IF items = <<>> THEN <<>>
    ELSE (IF Head(items).tag = "string" THEN chatMemberQueries[Head(items).name]
          ELSE <<>>) \o flatMapNormalizeShallow(Tail(items))

\* query.flatMap(normalizeChatMemberQuery)
flatMapNormalize(items) ==
    IF items = <<>> THEN <<>>
    ELSE normalizeChatMemberQuery(Head(items)) \o flatMapNormalize(Tail(items))

normalizeChatMemberQuery(query) ==
    IF query.tag = "array" THEN uniq(flatMapNormalize(query.items))
    ELSE chatMemberQueries[query.name]

\* mutant: the two branches on is_member are swapped
chatMemberIsSwapped(chatMember, query) ==
    LET roles == normalizeChatMemberQuery(query)
    IN  IF chatMember.status = "restricted"
        THEN IF includes(roles, "restricted") THEN TRUE
             ELSE IF chatMember.is_member THEN includes(roles, "restricted_out")
             ELSE includes(roles, "restricted_in")
        ELSE includes(roles, chatMember.status)

chatMemberIs(chatMember, query) ==
    LET roles == normalizeChatMemberQuery(query)
    IN  IF chatMember.status = "restricted"
        THEN IF includes(roles, "restricted") THEN TRUE
             ELSE IF chatMember.is_member THEN includes(roles, "restricted_in")
             ELSE includes(roles, "restricted_out")
        ELSE includes(roles, chatMember.status)

\* the array queries of at most len items, each a name
RECURSIVE NameArrays(_)
NameArrays(len) ==
    IF len = 0 THEN {<<>>}
    ELSE NameArrays(len - 1)
            \cup {Append(a, Query(q)) : a \in NameArrays(len - 1), q \in QueryNames}

FilterMembers == {ChatMember(User(1, 1), k) : k \in MemberKinds}

\* the names used inside nested arrays
NestedNames == {"admin", "out", "restricted_in"}

\* the arrays of at most len items, each drawn from items
RECURSIVE ArraysOf(_, _)
ArraysOf(items, len) ==
    IF len = 0 THEN {<<>>}
    ELSE ArraysOf(items, len - 1)
            \cup {Append(a, q) : a \in ArraysOf(items, len - 1), q \in items}

\* arrays whose items are names or arrays of names
NestedArrays ==
    LET names == {Query(q) : q \in NestedNames}
        inner == {QueryArray(a) : a \in ArraysOf(names, MaxQueryLen)}
    IN  ArraysOf(names \cup inner, MaxQueryLen)

FilterQueries ==
    {Query(q) : q \in QueryNames}
        \cup {QueryArray(a) : a \in NameArrays(MaxQueryLen)}
        \cup {QueryArray(a) : a \in NestedArrays}

InitFilter ==
    /\ store = EmptyStore
    /\ options = DefaultOptions
    /\ last = [op |-> "none"]
    /\ pre = EmptyStore
    /\ out = NoOutcome
    /\ n = 0
    /\ fetched = {}
    /\ asyncHas = FALSE
    /\ fMember \in {Some(m) : m \in FilterMembers}
    /\ fQuery \in {Some(q) : q \in FilterQueries}
    /\ fResult = Undefined
    /\ uUpdate = Undefined
    /\ uFilter = Undefined
    /\ uResult = Undefined
    /\ joined = {}
    /\ now = 0
    /\ written = EmptyStore
    /\ hCall = Undefined
    /\ hResult = Undefined
    /\ pending = Undefined

\* chatMemberIs(member, query) is called
CallChatMemberIs ==
    /\ fResult = Undefined
    /\ fResult' = Some(chatMemberIs(Val(fMember), Val(fQuery)))
    /\ UNCHANGED <<fMember, fQuery, uUpdate, uFilter, uResult, mwVars, storageVars,
                   hydrateVars, concVars>>

NextFilter == CallChatMemberIs

SpecFilter == InitFilter /\ [][NextFilter]_vars

(***************************************************************************)
(* filters.ts: the transition filters.  An update carries at most one of   *)
(* chat_member and my_chat_member, each a ChatMemberUpdated.               *)
(***************************************************************************)
ChatMemberUpdated(old, new) == [old_chat_member |-> old, new_chat_member |-> new]

\* ctx.has(kind): the update has a field of that name
has(ctx, kind) == Defined(ctx[kind])

\* mutant: the filter reads whichever of the two fields the update carries
chatMemberFilterAnyShape(oldStatus, newStatus, ctx) ==
    LET cm == IF has(ctx, "chat_member") THEN ctx.chat_member ELSE ctx.my_chat_member
    IN  /\ Defined(cm)
        /\ chatMemberIs(Val(cm).old_chat_member, oldStatus)
        /\ chatMemberIs(Val(cm).new_chat_member, newStatus)

myChatMemberFilter(oldStatus, newStatus, ctx) ==
    /\ has(ctx, "my_chat_member")
    /\ chatMemberIs(Val(ctx.my_chat_member).old_chat_member, oldStatus)
    /\ chatMemberIs(Val(ctx.my_chat_member).new_chat_member, newStatus)

chatMemberFilter(oldStatus, newStatus, ctx) ==
    /\ has(ctx, "chat_member")
    /\ chatMemberIs(Val(ctx.chat_member).old_chat_member, oldStatus)
    /\ chatMemberIs(Val(ctx.chat_member).new_chat_member, newStatus)

Transitions == {ChatMemberUpdated(old, new) : old \in FilterMembers, new \in FilterMembers}

\* chat_member updates, my_chat_member updates, and an update that is neither
FilterUpdates ==
    {[chat_member |-> Some(t), my_chat_member |-> Undefined] : t \in Transitions}
        \cup {[chat_member |-> Undefined, my_chat_member |-> Some(t)] : t \in Transitions}
        \cup {[chat_member |-> Undefined, my_chat_member |-> Undefined]}

\* the queries given to a transition filter: every name, and two arrays
TransitionQueries ==
    {Query(q) : q \in QueryNames}
        \cup {QueryArray(<<>>), QueryArray(<<Query("admin"), Query("restricted")>>)}

TransitionFilters ==
    [name : {"chatMemberFilter", "myChatMemberFilter"},
     oldStatus : TransitionQueries,
     newStatus : TransitionQueries]

InitTransition ==
    /\ store = EmptyStore
    /\ options = DefaultOptions
    /\ last = [op |-> "none"]
    /\ pre = EmptyStore
    /\ out = NoOutcome
    /\ n = 0
    /\ fetched = {}
    /\ asyncHas = FALSE
    /\ fMember = Undefined
    /\ fQuery = Undefined
    /\ fResult = Undefined
    /\ uUpdate \in {Some(u) : u \in FilterUpdates}
    /\ uFilter \in {Some(f) : f \in TransitionFilters}
    /\ uResult = Undefined
    /\ joined = {}
    /\ now = 0
    /\ written = EmptyStore
    /\ hCall = Undefined
    /\ hResult = Undefined
    /\ pending = Undefined

\* the filter built by chatMemberFilter / myChatMemberFilter is applied to the update
CallTransitionFilter ==
    /\ uResult = Undefined
    /\ uResult' =
        Some(IF Val(uFilter).name = "chatMemberFilter"
             THEN chatMemberFilter(Val(uFilter).oldStatus, Val(uFilter).newStatus,
                                   Val(uUpdate))
             ELSE myChatMemberFilter(Val(uFilter).oldStatus, Val(uFilter).newStatus,
                                     Val(uUpdate)))
    /\ UNCHANGED <<fMember, fQuery, fResult, uUpdate, uFilter, mwVars, storageVars,
                   hydrateVars, concVars>>

NextTransition == CallTransitionFilter

SpecTransition == InitTransition /\ [][NextTransition]_vars


(***************************************************************************)
(* storage.ts: the Trie.  A node is identified by the path of segments     *)
(* leading to it; the trie maps the path of every node to the node's value *)
(* (<<>> when it has none) and to its children map, the segments in        *)
(* insertion order (<<>> when the node has no map).                        *)
(***************************************************************************)
EmptyNode == [children |-> Undefined, value |-> Undefined]

EmptyTrie == [p \in {<<>>} |-> EmptyNode]

Prefix(key, i) == SubSeq(key, 1, i)

IsPrefixOf(p, key) == Len(p) <= Len(key) /\ Prefix(key, Len(p)) = p

\* node.children?.get(seg): the child node, if there is one
childAt(t, path, seg) ==
    IF Defined(t[path].children) /\ includes(Val(t[path].children), seg)
    THEN Some(Append(path, seg))
    ELSE Undefined

\* Trie.at from the node reached after i segments
RECURSIVE atFrom(_, _, _)
atFrom(t, key, i) ==
    IF i = Len(key) THEN Some(key)
    ELSE IF Defined(childAt(t, Prefix(key, i), key[i + 1])) THEN atFrom(t, key, i + 1)
    ELSE Undefined

trieAt(t, key) == atFrom(t, key, 0)

trieGet(t, key) == IF Defined(trieAt(t, key)) THEN t[key].value ELSE Undefined

\* the trie with a fresh node at path
withNode(t, path) == [p \in DOMAIN t \cup {path} |-> IF p = path THEN EmptyNode ELSE t[p]]

\* the trie without the nodes at and below path
withoutSubtree(t, path) == [p \in {q \in DOMAIN t : ~IsPrefixOf(path, q)} |-> t[p]]

\* Trie.set from the node reached after i segments
RECURSIVE setFrom(_, _, _, _)
setFrom(t, key, i, value) ==
    IF i = Len(key) THEN [t EXCEPT ![key].value = Some(value)]
    ELSE
        LET path == Prefix(key, i)
            seg == key[i + 1]
            children == IF Defined(t[path].children) THEN Val(t[path].children) ELSE <<>>
            t1 == IF includes(children, seg) THEN t
                  ELSE [withNode(t, Append(path, seg)) EXCEPT
                            ![path].children = Some(Append(children, seg))]
        IN  setFrom(t1, key, i + 1, value)

\* a set that replaces the terminal node, and with it the nodes below
trieSetResetNode(t, key, value) ==
    LET t1 == setFrom(t, key, 0, value)
    IN  [p \in {q \in DOMAIN t1 : q = key \/ ~IsPrefixOf(key, q)} |->
            IF p = key THEN [children |-> Undefined, value |-> Some(value)] ELSE t1[p]]

trieSet(t, key, value) == setFrom(t, key, 0, value)

\* The pruning loop of Trie.delete at index i of the path (path[i] is the node
\* reached after i segments).  siblings.delete(key[i]) names the segment after
\* the one that leads to path[i]; for the last node there is no such segment
\* (key[i] is undefined) and nothing is removed.
RECURSIVE pruneFrom(_, _, _)
pruneFrom(t, key, i) ==
    IF ~(i > 0 /\ t[Prefix(key, i)].value = Undefined) THEN t
    ELSE
        LET parent == Prefix(key, i - 1)
            siblings == Val(t[parent].children)
            seg == IF i < Len(key) THEN Some(key[i + 1]) ELSE Undefined
            removed == Defined(seg) /\ includes(siblings, Val(seg))
            remaining == IF removed THEN SelectSeq(siblings, LAMBDA x : x # Val(seg))
                         ELSE siblings
            t1 == IF removed
                  THEN [withoutSubtree(t, Append(parent, Val(seg))) EXCEPT
                            ![parent].children = Some(remaining)]
                  ELSE t
        IN  IF Len(remaining) > 0 THEN t1
            ELSE pruneFrom([t1 EXCEPT ![parent].children = Undefined], key, i - 1)

\* a delete that leaves the value of a node without children
trieDeleteKeepLeaf(t, key) ==
    IF ~Defined(trieAt(t, key)) THEN t
    ELSE IF Defined(t[key].children) THEN [t EXCEPT ![key].value = Undefined]
    ELSE t

\* a delete that removes the node and everything below it
trieDeleteSubtree(t, key) ==
    IF ~Defined(trieAt(t, key)) \/ key = <<>> THEN t
    ELSE
        LET parent == Prefix(key, Len(key) - 1)
            remaining == SelectSeq(Val(t[parent].children), LAMBDA x : x # key[Len(key)])
        IN  [withoutSubtree(t, key) EXCEPT
                ![parent].children = IF remaining = <<>> THEN Undefined ELSE Some(remaining)]

trieDelete(t, key) ==
    IF ~Defined(trieAt(t, key)) THEN t
    ELSE
        LET t1 == [t EXCEPT ![key].value = Undefined]
        IN  IF Defined(t1[key].children) THEN t1
            ELSE pruneFrom(t1, key, Len(key))

\* Trie.entries from the node at path: the node's entry, then the entries below
\* each child, in the order of the children map
RECURSIVE entriesFrom(_, _)
RECURSIVE entriesBelow(_, _, _)
entriesBelow(t, path, segs) ==
    IF segs = <<>> THEN <<>>
    ELSE entriesFrom(t, Append(path, Head(segs))) \o entriesBelow(t, path, Tail(segs))

entriesFrom(t, path) ==
    (IF Defined(t[path].value) THEN <<<<path, Val(t[path].value)>>>> ELSE <<>>)
        \o (IF Defined(t[path].children)
            THEN entriesBelow(t, path, Val(t[path].children))
            ELSE <<>>)

trieEntries(t, prefix) ==
    IF ~Defined(trieAt(t, prefix)) THEN <<>> ELSE entriesFrom(t, prefix)

trieKeys(t, prefix) ==
    LET es == trieEntries(t, prefix) IN [i \in 1..Len(es) |-> es[i][1]]

(***************************************************************************)
(* storage.ts: MemorySessionStorage over the Trie.  A Key is a string or   *)
(* an array of segments.  An operation that may change the store yields    *)
(* the store after it and its result.                                      *)
(***************************************************************************)
\* operations on the store in one behaviour
MaxStorageOps == 3
\* the clock runs from 0 to MaxTime
MaxTime == 2
\* the finite time to live, in clock ticks
FiniteTtl == 1

StrKey(name) == [tag |-> "string", name |-> name]
ArrKey(items) == [tag |-> "array", items |-> items]

cascade(key) == IF key.tag = "array" THEN key.items ELSE <<key.name>>

\* timeToLive: not given, Infinity, or a finite number
NoTtl == Undefined
InfiniteTtl == Some([finite |-> FALSE, ms |-> 0])
StorageOptions ==
    [timeToLive : {NoTtl, InfiniteTtl, Some([finite |-> TRUE, ms |-> FiniteTtl])}]

addExpiryDate(value, ttl) ==
    IF Defined(ttl) /\ Val(ttl).finite
    THEN [session |-> value, expires |-> Some(now + Val(ttl).ms)]
    ELSE [session |-> value, expires |-> Undefined]

storageDelete(t, key) == trieDelete(t, cascade(key))

\* a read that treats an entry as expired at the instant of its expiry date
storageReadInclusive(t, key) ==
    LET value == trieGet(t, cascade(key))
    IN  IF ~Defined(value) THEN [store |-> t, result |-> Undefined]
        ELSE IF Defined(Val(value).expires) /\ Val(Val(value).expires) <= now
        THEN [store |-> storageDelete(t, key), result |-> Undefined]
        ELSE [store |-> t, result |-> Some(Val(value).session)]

storageRead(t, key) ==
    LET value == trieGet(t, cascade(key))
    IN  IF ~Defined(value) THEN [store |-> t, result |-> Undefined]
        ELSE IF Defined(Val(value).expires) /\ Val(Val(value).expires) < now
        THEN [store |-> storageDelete(t, key), result |-> Undefined]
        ELSE [store |-> t, result |-> Some(Val(value).session)]

\* a has that looks for the node of the key instead of its value
storageHasNode(t, key) ==
    [store |-> t, result |-> Defined(trieAt(t, cascade(key)))]

storageHas(t, key) ==
    LET r == storageRead(t, key)
    IN  [store |-> r.store, result |-> r.result # Undefined]

storageWrite(t, key, value) ==
    trieSet(t, cascade(key), addExpiryDate(value, options.timeToLive))

\* a listing that ignores its prefix
storageKeysAll(t, prefix) == trieKeys(t, <<>>)

storageKeys(t, prefix) ==
    trieKeys(t, cascade(IF Defined(prefix) THEN Val(prefix) ELSE ArrKey(<<>>)))

\* The loop of entries(): each key of keys(prefix) is read, and yielded with its
\* value unless the read finds nothing.  A read changes no key but its own, so
\* the keys still to come are those the traversal saw at the start.
RECURSIVE entriesOver(_, _, _)
entriesOver(t, keys, acc) ==
    IF keys = <<>> THEN [store |-> t, result |-> acc]
    ELSE
        LET r == storageRead(t, ArrKey(Head(keys)))
        IN  entriesOver(r.store, Tail(keys),
                        IF Defined(r.result)
                        THEN Append(acc, <<Head(keys), Val(r.result)>>)
                        ELSE acc)

storageEntries(t, prefix) == entriesOver(t, storageKeys(t, prefix), <<>>)

storageValues(t, prefix) ==
    LET r == storageEntries(t, prefix)
    IN  [store |-> r.store, result |-> [i \in 1..Len(r.result) |-> r.result[i][2]]]

\* the keys and values of the model; "1" is a substring of "10"
StorageKeys == {<<"m">>, <<"m", "1">>, <<"m", "10">>, <<"m", "1", "2">>}
StorageValues == {1, 2}

\* a one-segment key is passed as a string
KeyArg(k) == IF Len(k) = 1 THEN StrKey(k[1]) ELSE ArrKey(k)
KeyArgs == {KeyArg(k) : k \in StorageKeys}
PrefixArgs == Optional(KeyArgs)

StorageStep(op, t, result) ==
    /\ n' = n + 1
    /\ pre' = store
    /\ store' = t
    /\ last' = op
    /\ out' = [result |-> result]
    /\ UNCHANGED <<options, fetched, asyncHas, joined, now, filterVars, hydrateVars, concVars>>

StorageWrite ==
    /\ n < MaxStorageOps
    /\ \E key \in KeyArgs, value \in StorageValues :
        /\ StorageStep([op |-> "write", key |-> key, value |-> value, at |-> now],
                       storageWrite(store, key, value), Undefined)
        /\ written' = adapterWrite(written, cascade(key), [value |-> value, at |-> now])

StorageDelete ==
    /\ n < MaxStorageOps
    /\ \E key \in KeyArgs :
        /\ StorageStep([op |-> "delete", key |-> key, at |-> now],
                       storageDelete(store, key), Undefined)
        /\ written' = adapterDelete(written, cascade(key))

StorageRead ==
    /\ n < MaxStorageOps
    /\ \E key \in KeyArgs :
        LET r == storageRead(store, key)
        IN  StorageStep([op |-> "read", key |-> key, at |-> now], r.store, r.result)
    /\ UNCHANGED written

StorageHas ==
    /\ n < MaxStorageOps
    /\ \E key \in KeyArgs :
        LET r == storageHas(store, key)
        IN  StorageStep([op |-> "has", key |-> key, at |-> now], r.store, r.result)
    /\ UNCHANGED written

StorageListKeys ==
    /\ n < MaxStorageOps
    /\ \E prefix \in PrefixArgs :
        StorageStep([op |-> "keys", prefix |-> prefix, at |-> now], store,
                    storageKeys(store, prefix))
    /\ UNCHANGED written

StorageListEntries ==
    /\ n < MaxStorageOps
    /\ \E prefix \in PrefixArgs :
        LET r == storageEntries(store, prefix)
        IN  StorageStep([op |-> "entries", prefix |-> prefix, at |-> now], r.store, r.result)
    /\ UNCHANGED written

StorageListValues ==
    /\ n < MaxStorageOps
    /\ \E prefix \in PrefixArgs :
        LET r == storageValues(store, prefix)
        IN  StorageStep([op |-> "values", prefix |-> prefix, at |-> now], r.store, r.result)
    /\ UNCHANGED written

\* time passes
Tick ==
    /\ now < MaxTime
    /\ now' = now + 1
    /\ UNCHANGED <<mwVars, filterVars, hydrateVars, written, concVars>>

InitStorage ==
    /\ store = EmptyTrie
    /\ options \in StorageOptions
    /\ last = [op |-> "none"]
    /\ pre = EmptyTrie
    /\ out = [result |-> Undefined]
    /\ n = 0
    /\ fetched = {}
    /\ asyncHas = FALSE
    /\ fMember = Undefined
    /\ fQuery = Undefined
    /\ fResult = Undefined
    /\ uUpdate = Undefined
    /\ uFilter = Undefined
    /\ uResult = Undefined
    /\ joined = {}
    /\ now = 0
    /\ written = EmptyStore
    /\ hCall = Undefined
    /\ hResult = Undefined
    /\ pending = Undefined

NextStorage ==
    \/ StorageWrite
    \/ StorageDelete
    \/ StorageRead
    \/ StorageHas
    \/ StorageListKeys
    \/ StorageListEntries
    \/ StorageListValues
    \/ Tick

SpecStorage == InitStorage /\ [][NextStorage]_vars

(***************************************************************************)
(* hydrate.ts: the hydrateChatMember transformer.  The is property is a    *)
(* function closed over the chat member it is defined on; it is kept as    *)
(* that chat member, and a call applies chatMemberIs to it.                *)
(***************************************************************************)
\* administrators in one getChatAdministrators response
MaxAdmins == 3

hydrate(chatMember) ==
    [f \in DOMAIN chatMember \cup {"is"} |->
        IF f = "is" THEN [closure |-> chatMember] ELSE chatMember[f]]

\* member.is(query) on a hydrated member
callIs(member, query) == chatMemberIs(member.is.closure, query)

\* a transformer that hydrates the result of getChatMember only
hydrateChatMemberOnly(method, res) ==
    IF ~res.ok THEN res
    ELSE IF method = "getChatMember" THEN [res EXCEPT !.result = hydrate(@)]
    ELSE res

\* the transformer applied to the response res of prev(method, payload, signal)
hydrateChatMember(method, res) ==
    IF ~res.ok THEN res
    ELSE IF method = "getChatMember" THEN [res EXCEPT !.result = hydrate(@)]
    ELSE IF method = "getChatAdministrators"
    THEN [res EXCEPT !.result = [i \in DOMAIN @ |-> hydrate(@[i])]]
    ELSE res

HydrateMembers == {ChatMember(User(u, 1), k) : u \in {1, 2}, k \in MemberKinds}
HydrateAdmins == {ChatMember(User(u, 1), k) : u \in {1, 2, 3}, k \in {"administrator", "creator"}}
HydrateQueries == {Query(q) : q \in QueryNames}

ApiOk(result) == [ok |-> TRUE, result |-> result]
ApiError == [ok |-> FALSE, error_code |-> 400]

\* the calls of the model: the method and the response of the previous transformer
ApiCalls ==
    {[method |-> "getChatMember", res |-> ApiOk(m)] : m \in HydrateMembers}
        \cup {[method |-> "getChatAdministrators", res |-> ApiOk(a)] :
                    a \in ArraysOf(HydrateAdmins, MaxAdmins)}
        \cup {[method |-> "getChat", res |-> ApiOk(Chat(c, 1))] : c \in {1, -1}}
        \cup {[method |-> "getMe", res |-> ApiOk(BotUser)]}
        \cup {[method |-> m, res |-> ApiError] :
                    m \in {"getChatMember", "getChatAdministrators", "getChat"}}

\* an API call passes through the transformer
CallApi ==
    /\ \E call \in ApiCalls :
        /\ hCall' = Some(call)
        /\ hResult' = Some(hydrateChatMember(call.method, call.res))
    /\ UNCHANGED <<mwVars, filterVars, storageVars, concVars>>

InitHydrate ==
    /\ store = EmptyStore
    /\ options = DefaultOptions
    /\ last = [op |-> "none"]
    /\ pre = EmptyStore
    /\ out = NoOutcome
    /\ n = 0
    /\ fetched = {}
    /\ asyncHas = FALSE
    /\ fMember = Undefined
    /\ fQuery = Undefined
    /\ fResult = Undefined
    /\ uUpdate = Undefined
    /\ uFilter = Undefined
    /\ uResult = Undefined
    /\ joined = {}
    /\ now = 0
    /\ written = EmptyStore
    /\ hCall = Undefined
    /\ hResult = Undefined
    /\ pending = Undefined

NextHydrate == CallApi

SpecHydrate == InitHydrate /\ [][NextHydrate]_vars

(***************************************************************************)
(* Claims about the hierarchical middleware (checked under Spec).          *)
(***************************************************************************)
Logged(entry) == \E i \in 1..Len(out.log) : out.log[i] = entry

DeleteLogged == \E i \in 1..Len(out.log) : out.log[i][1] = "delete"

\* the last operation was a chat_member update
ChatMemberProcessed == last.op = "update" /\ last.update.type = "chat_member"

NewMember == last.update.new_chat_member

NewStatusLeftOrKicked == NewMember.status = "left" \/ NewMember.status = "kicked"

\* the keys of the records a processed update is about
EventChatKey == <<"chats", toString(Val(last.update.chat).id)>>
EventUserKey == <<"users", toString(NewMember.user.id)>>
EventMemberKey ==
    <<"chat_members", toString(Val(last.update.chat).id), toString(NewMember.user.id)>>

\* C1: with default options, after a chat_member update whose new status is
\* left or kicked, read(["chat_members", chatId, userId]) is absent, whatever
\* the store held for the pair before.
C1_LeftMemberAbsent ==
    (ChatMemberProcessed /\ NewStatusLeftOrKicked /\ options = DefaultOptions)
        => adapterRead(store, EventMemberKey) = Undefined

\* C1 witness: a member whose record was stored is kicked, default options
C1_Witness ==
    /\ ChatMemberProcessed
    /\ NewMember.status = "kicked"
    /\ options = DefaultOptions
    /\ EventMemberKey \in DOMAIN pre

\* C2 (as claimed): with removeLeft.chatMembers = false, after a chat_member
\* update whose new status is left or kicked, read(["chat_members", chatId,
\* userId]) equals the update's new_chat_member.
C2_RetainedEqualsNew ==
    (ChatMemberProcessed /\ NewStatusLeftOrKicked /\ ~options.removeLeftChatMembers)
        => adapterRead(store, EventMemberKey) = Some(NewMember)

\* C3: on a chat_member update a delete happens only when the new raw status
\* is left or kicked and removal is enabled; for every other new status
\* (restricted with is_member false included) the three upserts are made
\* and nothing is deleted.
C3_DeleteOnlyOnLeftOrKicked ==
    ChatMemberProcessed =>
        /\ DeleteLogged => (NewStatusLeftOrKicked /\ options.removeLeftChatMembers)
        /\ ~NewStatusLeftOrKicked =>
            /\ ~DeleteLogged
            /\ Logged(<<"write", EventUserKey>>)
            /\ Logged(<<"write", EventChatKey>>)
            /\ Logged(<<"write", EventMemberKey>>)

\* C3 witness: a stored member becomes restricted outside the chat and is upserted
C3_Witness ==
    /\ ChatMemberProcessed
    /\ NewMember.status = "restricted"
    /\ ~NewMember.is_member
    /\ EventMemberKey \in DOMAIN pre
    /\ options.removeLeftChatMembers
    /\ adapterRead(store, EventMemberKey) = Some(NewMember)

\* C4: after a chat_member update whose new status is not left/kicked the
\* store holds ["users", userId] = new_chat_member.user, ["chats", chatId] =
\* the update's chat and ["chat_members", chatId, userId] = new_chat_member.
C4_KeepBranchStoresAllThree ==
    (ChatMemberProcessed /\ ~NewStatusLeftOrKicked) =>
        /\ adapterRead(store, EventUserKey) = Some(NewMember.user)
        /\ adapterRead(store, EventChatKey) = last.update.chat
        /\ adapterRead(store, EventMemberKey) = Some(NewMember)

\* C4 witness: all three records existed with other contents and were replaced,
\* the acting user being another user than the affected one
C4_Witness ==
    /\ ChatMemberProcessed
    /\ ~NewStatusLeftOrKicked
    /\ Val(last.update.from).id # NewMember.user.id
    /\ {EventUserKey, EventChatKey, EventMemberKey} \subseteq DOMAIN pre
    /\ pre[EventUserKey] # store[EventUserKey]
    /\ pre[EventChatKey] # store[EventChatKey]
    /\ pre[EventMemberKey] # store[EventMemberKey]

\* C5 (as claimed): on a chat_member update whose new status is left or kicked,
\* removal enabled, the membership record is deleted and the stored user
\* record of the affected user is deleted too.
C5_UserRecordDeleted ==
    (/\ ChatMemberProcessed
     /\ NewStatusLeftOrKicked
     /\ options.removeLeftChatMembers
     /\ EventUserKey \in DOMAIN pre)
        => /\ Logged(<<"delete", EventMemberKey>>)
           /\ EventUserKey \notin DOMAIN store

\* C5 (amended): on such an update the membership record is deleted, and the
\* stored user record of the affected user is neither deleted nor changed.
C5_OnlyMembershipDeleted ==
    (ChatMemberProcessed /\ NewStatusLeftOrKicked /\ options.removeLeftChatMembers)
        => /\ Logged(<<"delete", EventMemberKey>>)
           /\ ~Logged(<<"delete", EventUserKey>>)
           /\ EventUserKey \in DOMAIN pre =>
                adapterRead(store, EventUserKey) = Some(pre[EventUserKey])

\* C5 witness: a member whose user and membership records are stored leaves
C5_Witness ==
    /\ ChatMemberProcessed
    /\ NewStatusLeftOrKicked
    /\ options.removeLeftChatMembers
    /\ EventUserKey \in DOMAIN pre
    /\ EventMemberKey \in DOMAIN pre
    /\ EventMemberKey \notin DOMAIN store

\* the pair a getChatMember call is about: the argument, else the context's
CallChat(op) == IF Defined(op.chatId) THEN Val(op.chatId) ELSE Val(op.ctx.chat).id
CallUser(op) == IF Defined(op.userId) THEN Val(op.userId) ELSE Val(op.ctx.from).id
CallKey(op) == <<"chat_members", toString(CallChat(op)), toString(CallUser(op))>>

NoUserId(op) == ~Defined(op.userId) /\ ~Defined(op.ctx.from)
NoChatId(op) == ~Defined(op.chatId) /\ ~Defined(op.ctx.chat)

\* C6, a step: a getChatMember call that finds no record and whose remote call
\* succeeds makes exactly one remote call, returns its answer and leaves it
\* stored; a call for a pair that was fetched earlier (and not deleted since)
\* returns the stored value and makes no remote call.
C6_Step ==
    (last'.op = "getChatMember" /\ ~NoUserId(last') /\ ~NoChatId(last')) =>
        LET key == CallKey(last')
        IN  /\ (key \notin DOMAIN store /\ out'.err = "none") =>
                /\ out'.remote = 1
                /\ out'.answers[1].ok
                /\ out'.result =
                    Some(ChatMember(User(CallUser(last'), out'.answers[1].version),
                                    out'.answers[1].kind))
                /\ adapterRead(store', key) = out'.result
            /\ key \in fetched =>
                /\ out'.remote = 0
                /\ out'.err = "none"
                /\ out'.result = adapterRead(store, key)
                /\ out'.result # Undefined
                /\ store' = store

\* C6: read-through; every step of every behaviour is a C6_Step
C6_ReadThrough == [][C6_Step]_vars

\* C6 witness: a second getChatMember call for a fetched pair is served from
\* the store
C6_Witness ==
    /\ last.op = "getChatMember"
    /\ ~NoUserId(last) /\ ~NoChatId(last)
    /\ CallKey(last) \in fetched
    /\ out.remote = 0
    /\ out.result = adapterRead(store, CallKey(last))

\* C7: when the remote call of a getChatMember or getChat read-through fails,
\* the error reaches the caller, the remote API was called once and the store
\* is as it was before the accessor was called.
C7_RemoteFailurePropagates ==
    (/\ last.op \in {"getChatMember", "getChat"}
     /\ \E i \in 1..Len(out.answers) : ~out.answers[i].ok)
        => /\ out.err = "remote"
           /\ out.result = Undefined
           /\ out.remote = 1
           /\ store = pre

\* C7 witness: a getChatMember call on a store holding other records fails remotely
C7_Witness ==
    /\ last.op = "getChatMember"
    /\ out.answers = <<ApiFailure>>
    /\ out.err = "remote"
    /\ pre # EmptyStore

\* C8: getChatMember fails with an argument error exactly when the chat id or
\* the user id is given neither as an argument nor by the context; it then
\* touches neither the store nor the remote API.  Otherwise it looks up the
\* pair of the arguments, the context filling in only for a missing argument.
C8_ArgumentError ==
    last.op = "getChatMember" =>
        /\ out.err \in {"no userId", "no chatId"} <=> (NoUserId(last) \/ NoChatId(last))
        /\ (NoUserId(last) \/ NoChatId(last)) =>
            /\ out.log = <<>>
            /\ out.remote = 0
            /\ store = pre
        /\ ~(NoUserId(last) \/ NoChatId(last)) =>
            out.log[1] = <<"read", CallKey(last)>>

\* C8 witness: both ids are given although the context has a chat and an acting
\* user with other ids
C8_Witness ==
    /\ last.op = "getChatMember"
    /\ Defined(last.chatId) /\ Defined(last.ctx.chat)
    /\ Val(last.chatId) # Val(last.ctx.chat).id
    /\ Defined(last.userId) /\ Defined(last.ctx.from)
    /\ Val(last.userId) # Val(last.ctx.from).id
    /\ out.log[1] = <<"read", CallKey(last)>>

\* C21: when no store or remote operation fails, the middleware invokes the
\* downstream middleware exactly once per update, after all the store writes
\* and deletes it makes for the update.
C21_NextOnceAfterWrites ==
    (last.op = "update" /\ out.err = "none") =>
        /\ Len(out.log) >= 1
        /\ out.log[Len(out.log)] = <<"next">>
        /\ \A i \in 1..(Len(out.log) - 1) : out.log[i] # <<"next">>

\* C21 witness: an update whose processing wrote in the event branch and in the
\* aggressive storage step, then went downstream
C21_Witness ==
    /\ last.op = "update"
    /\ last.update.type = "chat_member"
    /\ options.enableAggressiveStorage
    /\ out.err = "none"
    /\ out.remote = 1
    /\ Len(out.log) >= 6
    /\ out.log[Len(out.log) - 1][1] = "write"
    /\ out.log[Len(out.log)] = <<"next">>

\* the last operation was a my_chat_member update
MyChatMemberProcessed == last.op = "update" /\ last.update.type = "my_chat_member"

\* C14: after a my_chat_member update whose new status is left or kicked, with
\* default options read(["chats", chatId]) is absent; with removeLeft.chats =
\* false the chats record stored before the update is still there, unchanged.
C14_LeftChat ==
    (MyChatMemberProcessed /\ NewStatusLeftOrKicked) =>
        /\ options = DefaultOptions => adapterRead(store, EventChatKey) = Undefined
        /\ (~options.removeLeftChats /\ EventChatKey \in DOMAIN pre) =>
                adapterRead(store, EventChatKey) = Some(pre[EventChatKey])

\* C14 witness: the bot is kicked from a chat whose record was stored
C14_Witness ==
    /\ MyChatMemberProcessed
    /\ NewMember.status = "kicked"
    /\ options = DefaultOptions
    /\ EventChatKey \in DOMAIN pre
    /\ EventChatKey \notin DOMAIN store

\* C15: after a my_chat_member update whose new status is not left/kicked,
\* read(["chats", chatId]) is the chat carried by the update.
C15_JoinedChatStored ==
    (MyChatMemberProcessed /\ ~NewStatusLeftOrKicked) =>
        adapterRead(store, EventChatKey) = last.update.chat

\* C15 witness: the chat was stored with older metadata and is replaced
C15_Witness ==
    /\ MyChatMemberProcessed
    /\ ~NewStatusLeftOrKicked
    /\ EventChatKey \in DOMAIN pre
    /\ pre[EventChatKey] # Val(last.update.chat)
    /\ store[EventChatKey] = Val(last.update.chat)

\* the store operations of the last run that write or delete a record
Changes == {i \in 1..Len(out.log) : out.log[i][1] \in {"write", "delete"}}

\* C16 (as claimed): processing a my_chat_member update writes or deletes no
\* record other than ["chats", chatId]; every users record and every
\* chat_members record is as it was before.
C16_ChatScopeOnly ==
    (MyChatMemberProcessed /\ ~options.enableAggressiveStorage) =>
        /\ \A i \in Changes : out.log[i][2] = EventChatKey
        /\ \A k \in (DOMAIN pre \cup DOMAIN store) \ {EventChatKey} :
                adapterRead(store, k) = adapterRead(pre, k)

\* the last operation was an update processed with aggressive storage enabled
AggressiveProcessed == last.op = "update" /\ options.enableAggressiveStorage

\* C17 (as claimed): with aggressive storage enabled, after the middleware has
\* processed an update carrying a chat c (an acting user u), the store holds
\* a ["chats", c] record (a ["users", u] record), for every adapter, those
\* whose has() returns a promise included.
C17_BackfillStored ==
    (AggressiveProcessed /\ out.err = "none") =>
        /\ Defined(last.update.chat) =>
                <<"chats", toString(Val(last.update.chat).id)>> \in DOMAIN store
        /\ Defined(last.update.from) =>
                <<"users", toString(Val(last.update.from).id)>> \in DOMAIN store

\* the chat_members key of the chat and the acting user of the last update
ActingMemberKey ==
    <<"chat_members", toString(Val(last.update.chat).id),
      toString(Val(last.update.from).id)>>

C18_FlatBackfillStored ==
    (/\ AggressiveProcessed
     /\ Defined(last.update.chat)
     /\ Defined(last.update.from)
     /\ out.err = "none")
        => getKey(Val(last.update.chat).id, Val(last.update.from).id) \in DOMAIN store

\* C22: in the flat-key middleware with a getKey that considers only the user
\* id and keepLeftChatMembers = false, a chat_member update in which the user
\* leaves a chat deletes the user's record, also when the user is still
\* recorded as a member of another chat.
C22_UserOnlyKeyDeleted ==
    (/\ ChatMemberProcessed
     /\ NewStatusLeftOrKicked
     /\ options.getKey = "userOnly"
     /\ ~options.keepLeftChatMembers)
        => LET key == toString(NewMember.user.id)
           IN  /\ key \in DOMAIN pre => Logged(<<"delete", key>>)
               /\ (\/ ~options.enableAggressiveStorage
                   \/ Val(last.update.from).id # NewMember.user.id)
                    => key \notin DOMAIN store

\* C22 witness: the user's record is deleted on leaving one chat while the
\* join in another chat is still on record
C22_Witness ==
    /\ ChatMemberProcessed
    /\ NewStatusLeftOrKicked
    /\ options.getKey = "userOnly"
    /\ ~options.keepLeftChatMembers
    /\ toString(NewMember.user.id) \in DOMAIN pre
    /\ toString(NewMember.user.id) \notin DOMAIN store
    /\ \E c \in FlatGroupIds :
        /\ c # Val(last.update.chat).id
        /\ <<c, NewMember.user.id>> \in joined

\* the user a getUser call is about: the argument, else the acting user
GetUserKey(op) ==
    <<"users", toString(IF Defined(op.userId) THEN Val(op.userId)
                        ELSE Val(op.ctx.from).id)>>

\* C20: getUser returns the stored ["users", id] record, or undefined when none
\* is stored; it makes no remote call and never changes the store; it fails
\* with an argument error exactly when neither an id nor an acting user is given.
C20_GetUserStoreOnly ==
    last.op = "getUser" =>
        /\ out.remote = 0
        /\ store = pre
        /\ \A i \in 1..Len(out.log) : out.log[i][1] = "read"
        /\ out.err = (IF NoUserId(last) THEN "no userId" ELSE "none")
        /\ ~NoUserId(last) => out.result = adapterRead(pre, GetUserKey(last))

\* C20 witness: getUser is asked for a user that is not stored while other
\* records are, and answers undefined
C20_Witness ==
    /\ last.op = "getUser"
    /\ ~NoUserId(last)
    /\ pre # EmptyStore
    /\ GetUserKey(last) \notin DOMAIN pre
    /\ out.result = Undefined
    /\ out.err = "none"

(***************************************************************************)
(* Claims about the classification of chat members (checked under          *)
(* SpecFilter).                                                            *)
(***************************************************************************)
\* the expansion of each composite query into base statuses
ExpansionTable ==
    [admin |-> {"administrator", "creator"},
     free |-> {"administrator", "creator", "member"},
     in |-> {"administrator", "creator", "member", "restricted_in"},
     out |-> {"left", "kicked", "restricted_out"},
     regular |-> {"member", "restricted_in"},
     restricted_in |-> {"restricted_in"},
     restricted_out |-> {"restricted_out"}]

\* the base status of a member: its raw status, restricted split by is_member
BaseStatus(m) ==
    IF m.status # "restricted" THEN m.status
    ELSE IF m.is_member THEN "restricted_in" ELSE "restricted_out"

Classified == fResult # Undefined

\* C9: for every member and every composite query, chatMemberIs is true exactly
\* when the member's base status is in the query's expansion; for every raw
\* status query, exactly when the member's raw status equals the query.
C9_ExpansionTable ==
    (Classified /\ Val(fQuery).tag = "string") =>
        LET m == Val(fMember)
            q == Val(fQuery).name
        IN  /\ q \in DOMAIN ExpansionTable =>
                (Val(fResult) <=> BaseStatus(m) \in ExpansionTable[q])
            /\ q \in RawStatuses => (Val(fResult) <=> m.status = q)

\* C9 witness: a restricted member outside the chat matches "out"
C9_Witness ==
    /\ Classified
    /\ Val(fQuery) = Query("out")
    /\ Val(fMember).status = "restricted"
    /\ ~Val(fMember).is_member
    /\ Val(fResult)

\* C10: for a restricted member r, chatMemberIs(r, "restricted_in") is
\* r.is_member, chatMemberIs(r, "restricted_out") is its negation and
\* chatMemberIs(r, "restricted") is true.
C10_RestrictedSplit ==
    (Classified /\ Val(fMember).status = "restricted") =>
        /\ Val(fQuery) = Query("restricted_in") =>
            (Val(fResult) <=> Val(fMember).is_member)
        /\ Val(fQuery) = Query("restricted_out") =>
            (Val(fResult) <=> ~Val(fMember).is_member)
        /\ Val(fQuery) = Query("restricted") => Val(fResult)

\* C10 witness: a restricted member outside the chat is classified by "restricted"
C10_Witness ==
    /\ Classified
    /\ Val(fMember).status = "restricted"
    /\ ~Val(fMember).is_member
    /\ Val(fQuery) = Query("restricted")
    /\ Val(fResult)

\* the names occurring in a query, at any depth
RECURSIVE Leaves(_)
Leaves(query) ==
    IF query.tag = "string" THEN {query.name}
    ELSE UNION {Leaves(query.items[i]) : i \in 1..Len(query.items)}

\* C11: a list query is a union: chatMemberIs(m, list) is true exactly when
\* chatMemberIs(m, q) is true for some query q occurring in the list, nested,
\* empty and duplicated lists included; the empty list matches no member.
C11_ListIsUnion ==
    (Classified /\ Val(fQuery).tag = "array") =>
        (Val(fResult) <=>
            \E q \in Leaves(Val(fQuery)) : chatMemberIs(Val(fMember), Query(q)))

\* C11 witness: an administrator matches a list only through a name nested in
\* an inner list
C11_Witness ==
    /\ Classified
    /\ Val(fMember).status = "administrator"
    /\ Val(fQuery) =
        QueryArray(<<Query("out"), QueryArray(<<Query("restricted_in"), Query("admin")>>)>>)
    /\ Val(fResult)

(***************************************************************************)
(* Claims about the transition filters (checked under SpecTransition).     *)
(***************************************************************************)
Filtered == uResult # Undefined

\* the field of the update each filter looks at
FilterField(name) == IF name = "chatMemberFilter" THEN "chat_member" ELSE "my_chat_member"

\* C12: chatMemberFilter(from, to) is true for an update exactly when it is a
\* chat_member update whose old member matches from and whose new member
\* matches to; myChatMemberFilter likewise for my_chat_member updates; each
\* is false on an update of the other shape.
C12_TransitionFilter ==
    Filtered =>
        LET f == Val(uFilter)
            t == Val(uUpdate)[FilterField(f.name)]
        IN  /\ Val(uResult) <=>
                /\ Defined(t)
                /\ chatMemberIs(Val(t).old_chat_member, f.oldStatus)
                /\ chatMemberIs(Val(t).new_chat_member, f.newStatus)
            /\ ~Defined(t) => ~Val(uResult)

\* C12 witness: myChatMemberFilter("admin", "admin") rejects a chat_member
\* update from administrator to administrator
C12_Witness ==
    /\ Filtered
    /\ Val(uFilter) =
        [name |-> "myChatMemberFilter", oldStatus |-> Query("admin"),
         newStatus |-> Query("admin")]
    /\ Defined(Val(uUpdate).chat_member)
    /\ Val(Val(uUpdate).chat_member).old_chat_member.status = "administrator"
    /\ Val(Val(uUpdate).chat_member).new_chat_member.status = "administrator"
    /\ ~Val(uResult)

\* the rows and columns of the transition table
TableQueries == {"out", "regular", "admin"}

\* the filters chatMemberFilter(X, Y) of the table that match the update
TableMatches(upd) ==
    {p \in TableQueries \X TableQueries : chatMemberFilter(Query(p[1]), Query(p[2]), upd)}

\* C13: for every chat_member update exactly one of the nine filters
\* chatMemberFilter(X, Y), X and Y in {out, regular, admin}, matches.
C13_TablePartition ==
    (Filtered /\ Defined(Val(uUpdate).chat_member)) =>
        /\ Cardinality(TableMatches(Val(uUpdate))) = 1
        /\ (/\ Val(uFilter).name = "chatMemberFilter"
            /\ Val(uFilter).oldStatus.tag = "string"
            /\ Val(uFilter).newStatus.tag = "string"
            /\ Val(uFilter).oldStatus.name \in TableQueries
            /\ Val(uFilter).newStatus.name \in TableQueries)
                => (Val(uResult) <=>
                        <<Val(uFilter).oldStatus.name, Val(uFilter).newStatus.name>>
                            \in TableMatches(Val(uUpdate)))

\* C13 witness: a restricted member outside the chat becomes a restricted member
\* inside it, and chatMemberFilter("out", "regular") is the filter that matches
C13_Witness ==
    /\ Filtered
    /\ Defined(Val(uUpdate).chat_member)
    /\ Val(Val(uUpdate).chat_member).old_chat_member =
        ChatMember(User(1, 1), "restricted_out")
    /\ Val(Val(uUpdate).chat_member).new_chat_member =
        ChatMember(User(1, 1), "restricted_in")
    /\ Val(uFilter) =
        [name |-> "chatMemberFilter", oldStatus |-> Query("out"),
         newStatus |-> Query("regular")]
    /\ Val(uResult)

(***************************************************************************)
(* Claims about the in-memory store (checked under SpecStorage).  written  *)
(* is the reference: for each key, the value of the last write and its     *)
(* time, a delete of the key since then removing it.                       *)
(***************************************************************************)
TtlFinite == Defined(options.timeToLive) /\ Val(options.timeToLive).finite

\* the entry last written under k, if it is not deleted and not expired at time t
LiveAt(k, t) ==
    /\ k \in DOMAIN written
    /\ TtlFinite => t <= written[k].at + Val(options.timeToLive).ms

Live(k) == LiveAt(k, now)

Expected(k, t) == IF LiveAt(k, t) THEN Some(written[k].value) ELSE Undefined

\* the prefixes a listing can be asked for, [] standing for an omitted one
PrefixPaths == {<<>>} \cup StorageKeys

PrefixArg(p) == IF p = <<>> THEN Undefined ELSE Some(KeyArg(p))

NoDuplicates(seq) == \A i, j \in 1..Len(seq) : seq[i] = seq[j] => i = j

Elements(seq) == {seq[i] : i \in 1..Len(seq)}

\* what read, has and the listings tell about store t
Observable(t) ==
    [reads |-> [k \in StorageKeys |-> storageRead(t, KeyArg(k)).result],
     has |-> [k \in StorageKeys |-> storageHas(t, KeyArg(k)).result],
     entries |-> [p \in PrefixPaths |-> storageEntries(t, PrefixArg(p)).result],
     keys |-> [p \in PrefixPaths |-> storageKeys(t, PrefixArg(p))]]

\* C23: in a store without a finite time to live, has(key) is true exactly when
\* the key was written and not deleted since, read(key) returns the value last
\* written, and writing the same key and value once more leaves the listing of
\* all entries as it is.
C23_HasReadIdempotentWrite ==
    ~TtlFinite =>
        /\ \A k \in StorageKeys :
            /\ storageHas(store, KeyArg(k)).result = (k \in DOMAIN written)
            /\ storageRead(store, KeyArg(k)).result =
                  (IF k \in DOMAIN written THEN Some(written[k].value) ELSE Undefined)
        /\ last.op = "has" => out.result = (cascade(last.key) \in DOMAIN written)
        /\ last.op = "read" =>
              out.result = (IF cascade(last.key) \in DOMAIN written
                            THEN Some(written[cascade(last.key)].value) ELSE Undefined)
        /\ last.op = "write" =>
              storageEntries(storageWrite(store, last.key, last.value), Undefined).result
                  = storageEntries(store, Undefined).result

\* has answers false for a key that was written and then deleted
C23_Witness ==
    /\ ~TtlFinite
    /\ last.op = "has"
    /\ cascade(last.key) = <<"m", "1", "2">>
    /\ out.result = FALSE
    /\ Defined(trieAt(store, <<"m", "1", "2">>))

C25_TtlExpiry ==
    /\ \A k \in StorageKeys :
        /\ storageRead(store, KeyArg(k)).result = Expected(k, now)
        /\ storageHas(store, KeyArg(k)).result = Live(k)
    /\ last.op = "read" => out.result = Expected(cascade(last.key), last.at)
    /\ last.op = "has" => out.result = LiveAt(cascade(last.key), last.at)
    /\ ((last.op = "read" /\ out.result = Undefined)
            \/ (last.op = "has" /\ out.result = FALSE)) =>
          trieGet(store, cascade(last.key)) = Undefined
    /\ ~TtlFinite => \A k \in DOMAIN written : Live(k)

\* a read after the time to live finds the entry, answers absent and removes it
C25_Witness ==
    /\ TtlFinite
    /\ last.op = "read"
    /\ cascade(last.key) \in DOMAIN written
    /\ last.at > written[cascade(last.key)].at + Val(options.timeToLive).ms
    /\ Defined(trieGet(pre, cascade(last.key)))
    /\ out.result = Undefined
    /\ trieGet(store, cascade(last.key)) = Undefined

\* C27: no node but the root is without value and without children, and no
\* node has an empty map of children.
C27_NoDanglingNodes ==
    \A p \in DOMAIN store :
        /\ p # <<>> => (Defined(store[p].value) \/ Defined(store[p].children))
        /\ store[p].children # Some(<<>>)

\* C28: after the delete of the only entry of the store, stored under a key of
\* several segments, the listings from the root and from every prefix of the key
\* are empty, and the key and each of its prefixes is absent.
C28_DeletedOnlyEntryUnreachable ==
    (/\ last.op = "delete"
     /\ Len(cascade(last.key)) >= 2
     /\ trieKeys(pre, <<>>) = <<cascade(last.key)>>) =>
        \A i \in 0..Len(cascade(last.key)) :
            LET p == Prefix(cascade(last.key), i)
            IN  /\ trieEntries(store, p) = <<>>
                /\ trieGet(store, p) = Undefined
                /\ storageEntries(store, PrefixArg(p)).result = <<>>
                /\ storageKeys(store, PrefixArg(p)) = <<>>
                /\ storageValues(store, PrefixArg(p)).result = <<>>
                /\ p # <<>> => storageRead(store, KeyArg(p)).result = Undefined

\* the only entry, under ["m","1","2"], is deleted
C28_Witness ==
    /\ last.op = "delete"
    /\ cascade(last.key) = <<"m", "1", "2">>
    /\ trieKeys(pre, <<>>) = <<<<"m", "1", "2">>>>
    /\ trieKeys(store, <<>>) = <<>>

\* C29: the delete of a key that holds no value (no node, or a node without
\* value) leaves read, has and the listings of every key and prefix as they
\* were, and a second delete of a key changes nothing after the first.
C29_DeleteAbsentIsNoOp ==
    last.op = "delete" =>
        /\ trieGet(pre, cascade(last.key)) = Undefined => Observable(store) = Observable(pre)
        /\ Observable(storageDelete(store, last.key)) = Observable(store)

\* the key deleted is a node without value above a stored entry
C29_Witness ==
    /\ last.op = "delete"
    /\ Defined(trieAt(pre, cascade(last.key)))
    /\ trieGet(pre, cascade(last.key)) = Undefined
    /\ \E k \in StorageKeys :
        /\ k # cascade(last.key)
        /\ IsPrefixOf(cascade(last.key), k)
        /\ Defined(trieGet(store, k))

\* C30: a write or delete of key k leaves read(k') as it was for every other
\* key k', the keys below k and the keys above k included.
C30_ExactKeyOnly ==
    last.op \in {"write", "delete"} =>
        \A k \in StorageKeys \ {cascade(last.key)} :
            /\ trieGet(store, k) = trieGet(pre, k)
            /\ storageRead(store, KeyArg(k)).result = storageRead(pre, KeyArg(k)).result

\* ["m","1"] is written between the stored ["m"] and ["m","1","2"]
C30_Witness ==
    /\ last.op = "write"
    /\ cascade(last.key) = <<"m", "1">>
    /\ Defined(trieGet(pre, <<"m">>))
    /\ Defined(trieGet(pre, <<"m", "1", "2">>))
    /\ Defined(trieGet(store, <<"m">>))
    /\ Defined(trieGet(store, <<"m", "1", "2">>))
    /\ Defined(trieGet(store, <<"m", "1">>))

(***************************************************************************)
(* Claims about the hydrateChatMember transformer (checked under           *)
(* SpecHydrate).                                                           *)
(***************************************************************************)
\* member m of the response came out as hydrated member h
Hydrated(h, m) ==
    /\ DOMAIN h = DOMAIN m \cup {"is"}
    /\ \A f \in DOMAIN m : h[f] = m[f]
    /\ \A q \in HydrateQueries : callIs(h, q) = chatMemberIs(m, q)

\* C26: the result of a successful getChatMember and every element of the result
\* of a successful getChatAdministrators carries an is method that returns
\* chatMemberIs(member, q) for every query q; a response that is not ok and the
\* response of any other method is returned as it came.
C26_HydrateAttachesIs ==
    Defined(hCall) =>
        LET call == Val(hCall)
            res == Val(hResult)
        IN  IF ~call.res.ok THEN res = call.res
            ELSE IF call.method = "getChatMember"
            THEN res.ok /\ Hydrated(res.result, call.res.result)
            ELSE IF call.method = "getChatAdministrators"
            THEN /\ res.ok
                 /\ Len(res.result) = Len(call.res.result)
                 /\ \A i \in 1..Len(res.result) : Hydrated(res.result[i], call.res.result[i])
            ELSE res = call.res

\* a getChatAdministrators response with two different administrators
C26_Witness ==
    /\ Defined(hCall)
    /\ Val(hCall).method = "getChatAdministrators"
    /\ Val(hCall).res.ok
    /\ Len(Val(hResult).result) = 2
    /\ Val(hResult).result[1].status = "administrator"
    /\ Val(hResult).result[2].status = "creator"
    /\ callIs(Val(hResult).result[1], Query("administrator"))
    /\ ~callIs(Val(hResult).result[2], Query("administrator"))

(***************************************************************************)
(* Claims about the key space, the stored statuses and the frame of the    *)
(* hierarchical middleware (checked under Spec).                           *)
(***************************************************************************)
\* C31: every key of the store is ["chats", chatId], ["users", userId] or
\* ["chat_members", chatId, userId]: a chat_members key has exactly three
\* segments, so a (chat, user) pair has at most one record.
C31_KeySpace ==
    \A k \in DOMAIN store :
        \/ Len(k) = 2 /\ k[1] = "chats" /\ k[2] \in {toString(c) : c \in ChatIds}
        \/ Len(k) = 2 /\ k[1] = "users" /\ k[2] \in {toString(u) : u \in UserIds \cup {BotUser.id}}
        \/ /\ Len(k) = 3
           /\ k[1] = "chat_members"
           /\ k[2] \in {toString(c) : c \in ChatIds}
           /\ k[3] \in {toString(u) : u \in UserIds}

\* the store holds a record of each of the three scopes
C31_Witness ==
    /\ \E k \in DOMAIN store : k[1] = "chats"
    /\ \E k \in DOMAIN store : k[1] = "users"
    /\ \E k \in DOMAIN store : k[1] = "chat_members" /\ Len(k) = 3

\* C33 (as claimed): every stored ["users", k] record is a user whose id is k.
C33_UserUnderOwnId ==
    \A k \in DOMAIN store : k[1] = "users" => toString(store[k].id) = k[2]

\* C34 (as claimed): with removal of left members enabled, no stored
\* chat_members record has the status left or kicked.
C34_NoLeftRecordStored ==
    options.removeLeftChatMembers =>
        \A k \in DOMAIN store :
            k[1] = "chat_members" => store[k].status \notin {"left", "kicked"}

\* C35 (as claimed): with removal and aggressive storage enabled, after a
\* chat_member update whose new status is left or kicked has passed through the
\* whole middleware, the store holds no record for the chat and the affected
\* user, whoever the acting user is.
C35_LeftMemberAbsentAggressive ==
    (/\ ChatMemberProcessed
     /\ NewStatusLeftOrKicked
     /\ options.removeLeftChatMembers
     /\ options.enableAggressiveStorage
     /\ out.err = "none") => EventMemberKey \notin DOMAIN store

BranchKeys ==
    IF NewStatusLeftOrKicked
    THEN IF options.removeLeftChatMembers THEN {EventMemberKey} ELSE {}
    ELSE {EventMemberKey, EventUserKey, EventChatKey}

\* the keys the aggressive storage step may add for the last update
AggressiveKeys ==
    IF options.enableAggressiveStorage
    THEN {ActingMemberKey, EventChatKey, <<"users", toString(Val(last.update.from).id)>>}
    ELSE {}

SameRecord(k) == adapterRead(store, k) = adapterRead(pre, k)

AllKeys == DOMAIN pre \cup DOMAIN store

\* C38 (as claimed): a chat_member update for (c, u) changes no record but
\* ["chat_members", c, u], ["users", u] and ["chats", c]; a leaving one changes
\* nothing but ["chat_members", c, u], and nothing at all with removal disabled.
C38_ChatMemberFrame ==
    ChatMemberProcessed =>
        /\ \A k \in AllKeys \ {EventMemberKey, EventUserKey, EventChatKey} : SameRecord(k)
        /\ NewStatusLeftOrKicked => \A k \in AllKeys \ {EventMemberKey} : SameRecord(k)
        /\ (NewStatusLeftOrKicked /\ ~options.removeLeftChatMembers) => store = pre

\* C38 (amended): the chat_member branch changes no record but those of the
\* claim; the aggressive storage step, when enabled, adds the records of the
\* chat and the acting user that are missing, ["chat_members", c, from],
\* ["chats", c] and ["users", from], and changes no stored record.
C38_ChatMemberFrameWithBackfill ==
    ChatMemberProcessed =>
        /\ \A k \in AllKeys \ (BranchKeys \cup AggressiveKeys) : SameRecord(k)
        /\ \A k \in (AggressiveKeys \ BranchKeys) \cap DOMAIN pre : SameRecord(k)
        /\ ~options.enableAggressiveStorage => C38_ChatMemberFrame

\* a member is removed by another user, whose membership record is backfilled
C38_Witness ==
    /\ ChatMemberProcessed
    /\ NewStatusLeftOrKicked
    /\ options.removeLeftChatMembers
    /\ options.enableAggressiveStorage
    /\ Val(last.update.from).id # NewMember.user.id
    /\ EventMemberKey \in DOMAIN pre
    /\ EventMemberKey \notin DOMAIN store
    /\ ActingMemberKey \in DOMAIN store \ DOMAIN pre

(***************************************************************************)
(* Listing and lookup of the in-memory store (checked under SpecStorage).  *)
(***************************************************************************)
\* C39 (as claimed): with a finite time to live, at every time every key that
\* keys(prefix) yields satisfies has(key), and keys(prefix) yields the keys of
\* entries(prefix).
C39_ListingConsistent ==
    TtlFinite =>
        \A p \in PrefixPaths :
            LET keys == storageKeys(store, PrefixArg(p))
                entries == storageEntries(store, PrefixArg(p)).result
            IN  /\ \A i \in 1..Len(keys) : storageHas(store, ArrKey(keys[i])).result
                /\ keys = [i \in 1..Len(entries) |-> entries[i][1]]

(***************************************************************************)
(* Claims about the chats middleware (checked under SpecChats).            *)
(***************************************************************************)
\* C40 (as claimed): with storePrivateChats = false, no update that passes
\* through the chats middleware writes a private chat to the store, whatever
\* keepLeftChats and enableAggressiveStorage are.
C40_NoPrivateChatStored ==
    (last.op = "update" /\ ~options.storePrivateChats /\ hasChatTypePrivate(last.update)) =>
        \A i \in 1..Len(out.log) : out.log[i][1] # "write"

(***************************************************************************)
(* Claims about store failures (checked under SpecFault).                  *)
(***************************************************************************)
\* the upserts of the keep branch, in the order of the source
KeepUpserts ==
    <<<<EventUserKey, NewMember.user>>,
      <<EventChatKey, Val(last.update.chat)>>,
      <<EventMemberKey, NewMember>>>>

\* a write of the last run failed
StoreFailed == \E i \in 1..Len(out.log) : out.log[i][1] = "failed"

\* C32: when one of the three upserts of the chat_member keep branch fails, the
\* error reaches the caller, the downstream middleware is not invoked, the
\* upserts made before the failure stay in the store, no later operation is
\* made, and every record but those and the failing one is as it was.
C32_StoreFailureInKeepBranch ==
    (ChatMemberProcessed /\ ~NewStatusLeftOrKicked /\ StoreFailed) =>
        /\ out.err = "store"
        /\ ~Logged(<<"next">>)
        /\ Len(out.log) <= 3
        /\ out.log[Len(out.log)] = <<"failed", KeepUpserts[Len(out.log)][1]>>
        /\ \A i \in 1..(Len(out.log) - 1) :
            /\ out.log[i] = <<"write", KeepUpserts[i][1]>>
            /\ \/ adapterRead(store, KeepUpserts[i][1]) = Some(KeepUpserts[i][2])
               \/ \E j \in (i + 1)..Len(out.log) : KeepUpserts[j][1] = KeepUpserts[i][1]
        /\ \A k \in AllKeys \ {KeepUpserts[i][1] : i \in 1..Len(out.log)} : SameRecord(k)

\* the third upsert fails after the first two changed the store
C32_Witness ==
    /\ ChatMemberProcessed
    /\ ~NewStatusLeftOrKicked
    /\ out.err = "store"
    /\ out.log = <<<<"write", EventUserKey>>, <<"write", EventChatKey>>,
                   <<"failed", EventMemberKey>>>>
    /\ EventUserKey \in DOMAIN pre
    /\ pre[EventUserKey] # NewMember.user
    /\ store[EventUserKey] = NewMember.user
    /\ SameRecord(EventMemberKey)

(***************************************************************************)
(* Claims about concurrent dispatch (checked under SpecConcurrent).        *)
(***************************************************************************)
\* the read-through wrote its answer back after a chat_member update for the
\* same chat and user was processed
WroteBackAfterEvent ==
    last.op = "writeBack" /\ Defined(last.event) /\ out.err = "none"

\* the member the remote API reported to the read-through
FetchedMember == ChatMember(User(last.userId, last.api.version), last.api.kind)

\* C36 (as claimed): when a chat_member update for the same chat and user is
\* processed between the miss of a read-through and its write-back, the store
\* after the write-back still holds what the update left: its new record, or
\* no record after a removal.
C36_NoStaleWriteBack ==
    WroteBackAfterEvent =>
        IF isLeaving(Val(last.event))
        THEN options.removeLeftChatMembers => last.key \notin DOMAIN store
        ELSE adapterRead(store, last.key) = Some(Val(last.event).new_chat_member)

\* C36 (amended): the write-back is the last write and wins: after it the store
\* holds the fetched member under the key, whatever an update stored or deleted
\* there since the miss, and every other record is as it was; a failed remote
\* call writes nothing.
C36_LastWriteWins ==
    last.op = "writeBack" =>
        IF last.api.ok
        THEN /\ out.err = "none"
             /\ store = adapterWrite(pre, last.key, FetchedMember)
        ELSE /\ out.err = "remote"
             /\ store = pre

\* the record an update stored since the miss is replaced by the fetched one
C36_Witness ==
    /\ WroteBackAfterEvent
    /\ ~isLeaving(Val(last.event))
    /\ adapterRead(pre, last.key) = Some(Val(last.event).new_chat_member)
    /\ store[last.key] = FetchedMember
    /\ store[last.key] # pre[last.key]

====
